---- MODULE Spec2Model ----
(***************************************************************************)
(* Model of the Furby voice-interaction controller (keepitreal/furby-      *)
(* embedded): the wake-word listening loop, the VAD recorder, the audio    *)
(* device managers and the session handler, as state machines.            *)
(***************************************************************************)
EXTENDS Integers, Sequences, FiniteSets, TLC

(***************************************************************************)
(* Bounds of the model.                                                    *)
(***************************************************************************)
MaxRawBytes == 16
MaxElapsed == 8
MaxFeeds == 3
MaxLoops == 2
MaxChunks == 2
MaxUptime == 5
MaxWords == 3

(***************************************************************************)
(* Generic helpers.                                                        *)
(***************************************************************************)
BoundedSeq(S, n) == UNION {[1..k -> S] : k \in 0..n}

VARIABLES
  raw_data,        \* bytes handed to _process_audio_for_vosk
  vosk_out,        \* bytes it returned
  ppc,             \* position of the frame-processing step
  now,             \* time.time(), in seconds
  is_listening,    \* WakeWordDetector.is_listening
  is_paused,       \* WakeWordDetector.is_paused
  last_detection,  \* WakeWordDetector.last_detection
  callback_times,  \* detection time of every callback invocation so far
  feeds,           \* texts handed to _check_wake_word so far, with the outcome
  stack,           \* per thread: its call stack of program positions, innermost first
  rv,              \* per thread: the value returned by the call that returned last
  req,             \* per thread: arguments of its current AlsaAudioManager call
  rec,             \* per thread: the locals of its record_with_vad call
  alsa,            \* the AlsaAudioManager instances: the detector's and the recorder's
  am_is_recording, \* AudioManager.is_recording
  am_is_playing,   \* AudioManager.is_playing
  is_processing,   \* FurbyServer.is_processing
  listen_thread,   \* WakeWordDetector.listen_thread: the loop thread spawned last, 0 for None
  join_start,      \* when stop_listening started its listen_thread.join(timeout=3.0)
  pyaudio_instance, \* SharedAudioManager.pyaudio_instance is not None
  active_streams,  \* SharedAudioManager.active_streams
  stream_lock,     \* SharedAudioManager.stream_lock: the thread holding it, 0 if free
  m_words,         \* self.wake_words of the detector whose matching is examined
  m_text,          \* the decoded text handed to its _check_wake_word
  m_out,           \* what the matching computed for it
  current_position, \* ServoController.current_position
  servo_active,    \* ServoController.is_active and self.pi: a pigpio connection exists
  moves,           \* per thread: the positions its servo call has still to move to
  commanded,       \* per thread: its move_to_position is past set_servo_pulsewidth
  pulse,           \* the position of the last command sent to the servo, -1 for none
  backend,         \* the send_text_for_response call under examination
  audio_np,        \* the frame of int16 samples whose energy is examined
  voice,           \* the branch of the voice activity detection taken for it
  singleton        \* SharedAudioManager._instance, its _initialized flag, and _lock

resampleVars == <<raw_data, vosk_out, ppc>>
detVars == <<is_listening, is_paused, last_detection>>
wakeLogVars == <<callback_times, feeds>>
threadVars == <<stack, rv, req, rec>>
audioVars == <<alsa, am_is_recording, am_is_playing>>
srvVars == <<is_processing, listen_thread, join_start>>
sharedVars == <<pyaudio_instance, active_streams, stream_lock>>
matchVars == <<m_words, m_text, m_out>>
servoVars == <<current_position, servo_active, moves, commanded, pulse>>
backendVars == <<backend>>
energyVars == <<audio_np, voice>>
singletonVars == <<singleton>>
extVars == <<servoVars, backendVars, energyVars, singletonVars>>
\* what the audio managers and the recorder leave alone
nonAudioVars == <<now, detVars, wakeLogVars, resampleVars, srvVars, sharedVars, matchVars, extVars>>
\* what the backend client leaves alone
nonBackendVars == <<now, detVars, wakeLogVars, resampleVars, srvVars, sharedVars, matchVars,
                    servoVars, energyVars, singletonVars, threadVars, audioVars>>
\* what the servo controller leaves alone
nonServoVars == <<now, detVars, wakeLogVars, resampleVars, srvVars, sharedVars, matchVars,
                  backendVars, energyVars, singletonVars, audioVars>>
\* what the detector's text matching and the frame processing leave alone
sysVars == <<threadVars, audioVars, srvVars, sharedVars, matchVars, extVars>>

vars == <<resampleVars, now, detVars, wakeLogVars, threadVars, audioVars, srvVars, sharedVars,
          matchVars, extVars>>

(***************************************************************************)
(* WakeWordDetector._process_audio_for_vosk: bytes -> int16 stereo ->      *)
(* mono (channel mean) -> every 3rd sample -> bytes.                       *)
(***************************************************************************)
ByteVals == {0, 255}

\* np.frombuffer(raw_data, dtype=np.int16): little-endian pairs of bytes;
\* a byte count that is not a multiple of 2 raises ValueError.
Int16Of(lo, hi) ==
  LET u == lo + 256 * hi IN IF u >= 32768 THEN u - 65536 ELSE u

frombuffer(bytes) == [i \in 1..(Len(bytes) \div 2) |-> Int16Of(bytes[2*i - 1], bytes[2*i])]

\* ndarray.tobytes() of an int16 array
tobytes(samples) ==
  [i \in 1..(2 * Len(samples)) |->
     LET v == samples[(i + 1) \div 2]
         u == IF v < 0 THEN v + 65536 ELSE v
     IN IF i % 2 = 1 THEN u % 256 ELSE u \div 256]

\* float64 -> int16 of the channel mean: truncation toward zero
TruncHalf(s) == IF s >= 0 THEN s \div 2 ELSE -((-s) \div 2)

\* np.mean(stereo_data.reshape(-1, 2), axis=1).astype(np.int16)
mono_data(stereo) == [i \in 1..(Len(stereo) \div 2) |-> TruncHalf(stereo[2*i - 1] + stereo[2*i])]

\* a decimation that drops the trailing partial group of samples
EveryThird_floor(mono) == [i \in 1..(Len(mono) \div 3) |-> mono[3*i - 2]]

\* mono_data[::3]: indices 0, 3, 6, ... (1, 4, 7, ... counting from 1)
EveryThird(mono) == [i \in 1..((Len(mono) + 2) \div 3) |-> mono[3*i - 2]]

resampled_data(mono) == IF Len(mono) >= 3 THEN EveryThird(mono) ELSE mono

process_audio_for_vosk(bytes) ==
  IF Len(bytes) % 2 # 0 THEN <<>>            \* ValueError, caught: return b''
  ELSE LET stereo_all == frombuffer(bytes)
       IN IF Len(stereo_all) = 0 THEN <<>>
          ELSE LET stereo == IF Len(stereo_all) % 2 # 0
                             THEN SubSeq(stereo_all, 1, Len(stereo_all) - 1)
                             ELSE stereo_all
               IN tobytes(resampled_data(mono_data(stereo)))

(***************************************************************************)
(* Text: a str is a sequence of one-character strings.                     *)
(***************************************************************************)
SP == " "
W_furby == <<"f", "u", "r", "b", "y">>
W_Furby == <<"F", "u", "r", "b", "y">>
W_hey == <<"h", "e", "y">>
W_wake == <<"w", "a", "k", "e">>
W_up == <<"u", "p">>
W_hello == <<"h", "e", "l", "l", "o">>

\* str.lower(), over the alphabet of the model
LowerChar(c) == IF c = "F" THEN "f" ELSE c
lower(s) == [i \in 1..Len(s) |-> LowerChar(s[i])]

\* str.strip()
RECURSIVE lstrip(_)
lstrip(s) == IF s # <<>> /\ Head(s) = SP THEN lstrip(Tail(s)) ELSE s
RECURSIVE rstrip(_)
rstrip(s) == IF s # <<>> /\ s[Len(s)] = SP THEN rstrip(SubSeq(s, 1, Len(s) - 1)) ELSE s
strip(s) == rstrip(lstrip(s))

\* str.split(): the maximal runs of non-blank characters
FirstWordLen(s) ==
  IF \E i \in 1..Len(s) : s[i] = SP
  THEN (CHOOSE i \in 1..Len(s) : s[i] = SP /\ \A j \in 1..(i - 1) : s[j] # SP) - 1
  ELSE Len(s)
RECURSIVE split(_)
split(s) ==
  IF s = <<>> THEN <<>>
  ELSE IF Head(s) = SP THEN split(Tail(s))
  ELSE <<SubSeq(s, 1, FirstWordLen(s))>> \o split(SubSeq(s, FirstWordLen(s) + 1, Len(s)))

\* `sub in s` on str: substring containment
Contains(sub, s) == \E i \in 1..(Len(s) - Len(sub) + 1) : SubSeq(s, i, i + Len(sub) - 1) = sub
StrIn(sub, s) == sub = <<>> \/ Contains(sub, s)

\* " ".join(words)
RECURSIVE join(_)
join(ws) ==
  IF ws = <<>> THEN <<>>
  ELSE IF Len(ws) = 1 THEN ws[1]
  ELSE ws[1] \o <<SP>> \o join(Tail(ws))

\* a membership test that also finds a word inside a longer word
ListIn_part(w, l) == \E i \in 1..Len(l) : StrIn(w, l[i])

\* `word in words_in_text` on a list
ListIn(w, l) == \E i \in 1..Len(l) : l[i] = w

(***************************************************************************)
(* Configuration (FurbyConfig defaults).                                   *)
(***************************************************************************)
WAKE_WORD_COOLDOWN == 5
\* WAKE_WORD_CONFIDENCE = 0.7, as a fraction
WAKE_WORD_CONFIDENCE_NUM == 7
WAKE_WORD_CONFIDENCE_DEN == 10
\* WAKE_WORDS = 'furby,hey furby,furby wake up'.split(',')
WAKE_WORDS == << W_furby, W_hey \o <<SP>> \o W_furby,
                 W_furby \o <<SP>> \o W_wake \o <<SP>> \o W_up >>

\* WakeWordDetector.__init__: [word.strip().lower() for word in config.WAKE_WORDS]
wake_words == [i \in 1..Len(WAKE_WORDS) |-> lower(strip(WAKE_WORDS[i]))]

(***************************************************************************)
(* WakeWordDetector._calculate_confidence and _check_wake_word.            *)
(***************************************************************************)
\* confidence as a fraction [num, den]
calculate_confidence(text, wake_word) ==
  IF wake_word = text THEN [num |-> 1, den |-> 1]
  ELSE LET words_in_text == split(text)
           words_in_wake == split(wake_word)
           matches == Cardinality({i \in 1..Len(words_in_wake) : ListIn(words_in_wake[i], words_in_text)})
       IN IF words_in_wake # <<>>
          THEN [num |-> matches, den |-> Len(words_in_wake)]
          ELSE [num |-> 0, den |-> 1]

\* confidence >= self.config.WAKE_WORD_CONFIDENCE
ConfidenceReached(c) == c.num * WAKE_WORD_CONFIDENCE_DEN >= WAKE_WORD_CONFIDENCE_NUM * c.den

\* a cooldown test over twice the configured window
CooldownActive_long(current_time, last) == current_time - last < 2 * WAKE_WORD_COOLDOWN

\* a cooldown test that never rejects
CooldownActive_never(current_time, last) == FALSE

\* current_time - self.last_detection < self.config.WAKE_WORD_COOLDOWN
CooldownActive(current_time, last) == current_time - last < WAKE_WORD_COOLDOWN

\* a loop body without the `wake_word in text` test
WakeWordMatches_confidence(text, wake_word) ==
  ConfidenceReached(calculate_confidence(text, wake_word))

\* the body of the loop over self.wake_words for one wake word
WakeWordMatches(text, wake_word) ==
  /\ StrIn(wake_word, text)
  /\ ConfidenceReached(calculate_confidence(text, wake_word))

\* index of the wake word at which the for loop breaks, 0 if it runs to the end
MatchedWakeWord(text) ==
  IF \E i \in 1..Len(wake_words) : WakeWordMatches(text, wake_words[i])
  THEN CHOOSE i \in 1..Len(wake_words) :
         /\ WakeWordMatches(text, wake_words[i])
         /\ \A j \in 1..(i - 1) : ~WakeWordMatches(text, wake_words[j])
  ELSE 0

\* _check_wake_word reaches self.callback() for this decoded text
WakeWordAccepted(raw_text) ==
  /\ raw_text # <<>>
  /\ ~is_paused
  /\ ~CooldownActive(now, last_detection)
  /\ MatchedWakeWord(strip(lower(raw_text))) # 0

\* a pause_listening that does not pause
PausedAfterPause_not == is_paused

\* a pause_listening that pauses whether or not the detector is listening
PausedAfterPause_always == TRUE

\* WakeWordDetector.pause_listening: the value of is_paused it leaves
PausedAfterPause == IF is_listening THEN TRUE ELSE is_paused

\* a resume_listening that leaves the detector as it found it
PausedAfterResume_stuck == is_paused

\* WakeWordDetector.resume_listening: the value of is_paused it leaves
PausedAfterResume == IF is_listening /\ is_paused THEN FALSE ELSE is_paused

(***************************************************************************)
(* Threads.  Loop threads run WakeWordDetector._listen_loop (one is        *)
(* spawned by each successful start_listening); the request thread runs    *)
(* the HTTP handlers of FurbyServer.  stack[t] is the call stack of t as   *)
(* program positions, innermost call first; <<>> when t is not running.    *)
(***************************************************************************)
LoopThreads == 1..MaxLoops
ApiThread == MaxLoops + 1
\* the two threads a response is played on: threading.Thread(target=play_audio)
\* and threading.Thread(target=animate_mouth), created by the session on a
\* loop thread or by the /respond route on the request thread
audio_thread(t) == MaxLoops + 2 * t
servo_thread(t) == MaxLoops + 2 * t + 1
ResponseThreads == (MaxLoops + 2)..(3 * MaxLoops + 3)
Threads == LoopThreads \cup {ApiThread} \cup ResponseThreads

At(t, l) == stack[t] # <<>> /\ Head(stack[t]) = l
InCall(t, l) == \E i \in 1..Len(stack[t]) : stack[t][i] = l

\* move on within the current function
Goto(t, l) == stack' = [stack EXCEPT ![t] = <<l>> \o Tail(@)]
\* call a function entered at `callee`, to continue at `cont` when it returns
Call(t, callee, cont) == stack' = [stack EXCEPT ![t] = <<callee, cont>> \o Tail(@)]
\* return v from the current function
Return(t, v) ==
  /\ stack' = [stack EXCEPT ![t] = Tail(@)]
  /\ rv' = [rv EXCEPT ![t] = v]

(***************************************************************************)
(* Configuration of the audio path (FurbyConfig defaults).                 *)
(***************************************************************************)
SAMPLE_RATE == 16000
CHANNELS == 2
FRAME_SIZE == 4000
VAD_SILENCE_DURATION == 2
MAX_RECORDING_DURATION == 30
\* the wake-word stream: 48 kHz stereo, the WM8960's native format
WAKE_RATE == 48000
WAKE_CHANNELS == 2
\* alsaaudio imported successfully
ALSAAUDIO_AVAILABLE == TRUE

(***************************************************************************)
(* AlsaAudioManager.  Two instances exist, both on device hw:0,0: the one  *)
(* WakeWordDetector.__init__ creates ("det") and the one                   *)
(* AudioManager.__init__ creates ("rec").                                  *)
(***************************************************************************)
Managers == {"det", "rec"}
\* the logical stream ids used with SharedAudioManager
StreamIds == {"wake_word_detector", "audio_manager_recording"}
\* recording_pcm is None
NoPcm == [channels |-> 0, rate |-> 0, period_size |-> 0]
NoReq == [m |-> "det", dir |-> "capture", pcm |-> NoPcm]
\* the two kinds of stream of a manager: recording (PCM_CAPTURE) and playback
Directions == {"capture", "playback"}
AlsaInit == [recording_pcm |-> NoPcm, is_recording |-> FALSE,
             playback_pcm |-> NoPcm, is_playing |-> FALSE,
             lock |-> 0, is_available |-> ALSAAUDIO_AVAILABLE]

CaptureOpen(m) == alsa[m].recording_pcm # NoPcm

\* the stream alsaaudio.PCM(...) opens for the arguments of create_recording_stream:
\* period_size None (0 here) stands for rate // 8
OpenedPcm(pcm) == [pcm EXCEPT !.period_size = IF @ = 0 THEN pcm.rate \div 8 ELSE @]

\* a create_recording_stream that replaces an open stream: no early return
AlreadyRecording_never(m) == FALSE

\* create_recording_stream: `if self.is_recording:` (return True, keep the stream)
AlreadyRecording(m) == alsa[m].is_recording

\* create_playback_stream: `if self.is_playing:` (return True, keep the stream)
AlreadyPlaying(m) == alsa[m].is_playing

\* create_recording_stream / create_playback_stream up to the lock: the
\* availability check and the is_recording / is_playing check
create_check(t) ==
  /\ At(t, "create_check")
  /\ IF ~alsa[req[t].m].is_available THEN Return(t, "False")
     ELSE IF req[t].dir = "capture" /\ AlreadyRecording(req[t].m) THEN Return(t, "True")
     ELSE IF req[t].dir = "playback" /\ AlreadyPlaying(req[t].m) THEN Return(t, "True")
     ELSE Goto(t, "create_lock") /\ UNCHANGED rv
  /\ UNCHANGED <<req, rec, audioVars>>
  /\ UNCHANGED nonAudioVars

\* `with self.lock:` entered
create_lock(t) ==
  /\ At(t, "create_lock")
  /\ alsa[req[t].m].lock = 0
  /\ alsa' = [alsa EXCEPT ![req[t].m].lock = t]
  /\ Goto(t, "create_open")
  /\ UNCHANGED <<rv, req, rec, am_is_recording, am_is_playing>>
  /\ UNCHANGED nonAudioVars

\* a create that sets its flag before the open and leaves it set when the open raises
create_open_flagged(t) ==
  /\ At(t, "create_open")
  /\ \E opened \in BOOLEAN :
       IF opened
       THEN /\ alsa' = [alsa EXCEPT ![req[t].m] =
                          IF req[t].dir = "capture"
                          THEN [@ EXCEPT !.recording_pcm = OpenedPcm(req[t].pcm),
                                         !.is_recording = TRUE, !.lock = 0]
                          ELSE [@ EXCEPT !.playback_pcm = OpenedPcm(req[t].pcm),
                                         !.is_playing = TRUE, !.lock = 0]]
            /\ Return(t, "True")
       ELSE /\ alsa' = [alsa EXCEPT ![req[t].m] =
                          IF req[t].dir = "capture"
                          THEN [@ EXCEPT !.is_recording = TRUE, !.lock = 0]
                          ELSE [@ EXCEPT !.is_playing = TRUE, !.lock = 0]]
            /\ Return(t, "False")
  /\ UNCHANGED <<req, rec, am_is_recording, am_is_playing>>
  /\ UNCHANGED nonAudioVars

\* alsaaudio.PCM(...) under the lock: the stream is opened, or the open raises
create_open(t) ==
  /\ At(t, "create_open")
  /\ \E opened \in BOOLEAN :
       IF opened
       THEN /\ alsa' = [alsa EXCEPT ![req[t].m] =
                          IF req[t].dir = "capture"
                          THEN [@ EXCEPT !.recording_pcm = OpenedPcm(req[t].pcm),
                                         !.is_recording = TRUE, !.lock = 0]
                          ELSE [@ EXCEPT !.playback_pcm = OpenedPcm(req[t].pcm),
                                         !.is_playing = TRUE, !.lock = 0]]
            /\ Return(t, "True")
       ELSE /\ alsa' = [alsa EXCEPT ![req[t].m].lock = 0]
            /\ Return(t, "False")
  /\ UNCHANGED <<req, rec, am_is_recording, am_is_playing>>
  /\ UNCHANGED nonAudioVars

\* close_recording_stream: `with self.lock:` entered
close_lock(t) ==
  /\ At(t, "close_lock")
  /\ alsa[req[t].m].lock = 0
  /\ alsa' = [alsa EXCEPT ![req[t].m].lock = t]
  /\ Goto(t, "close_body")
  /\ UNCHANGED <<rv, req, rec, am_is_recording, am_is_playing>>
  /\ UNCHANGED nonAudioVars

\* a close_recording_stream that releases the lock but leaves the stream as it is
close_body_leak(t) ==
  /\ At(t, "close_body")
  /\ alsa' = [alsa EXCEPT ![req[t].m].lock = 0]
  /\ Return(t, "None")
  /\ UNCHANGED <<req, rec, am_is_recording, am_is_playing>>
  /\ UNCHANGED nonAudioVars

\* close_recording_stream / close_playback_stream under the lock
close_body(t) ==
  /\ At(t, "close_body")
  /\ alsa' = [alsa EXCEPT ![req[t].m] =
                IF req[t].dir = "capture"
                THEN [@ EXCEPT !.recording_pcm = NoPcm, !.is_recording = FALSE, !.lock = 0]
                ELSE [@ EXCEPT !.playback_pcm = NoPcm, !.is_playing = FALSE, !.lock = 0]]
  /\ Return(t, "None")
  /\ UNCHANGED <<req, rec, am_is_recording, am_is_playing>>
  /\ UNCHANGED nonAudioVars

\* the three outcomes of read_audio on an open stream: None (the read raised),
\* b'' (nothing available, non-blocking mode), or a chunk of samples
Chunks == {<<0, 0>>, <<400, -400>>}
ReadOutcomes(m) ==
  IF ~alsa[m].is_available \/ ~CaptureOpen(m) THEN {"None"}
  ELSE {"None", "empty", "data"}

(***************************************************************************)
(* AudioManager.record_with_vad.                                           *)
(***************************************************************************)
\* audio_np**2 on an int16 array: the square, wrapped to 16 bits
Sq16(x) == ((x * x + 32768) % 65536) - 32768
RECURSIVE SumSq16(_)
SumSq16(chunk) == IF chunk = <<>> THEN 0 ELSE Sq16(Head(chunk)) + SumSq16(Tail(chunk))

\* energy = np.sqrt(np.mean(audio_np**2)) / 32768.0 > VAD_ENERGY_THRESHOLD (0.01):
\* mean > (0.01 * 32768)^2, i.e. 10000 * sum > 2^30 * len, both sides over 16;
\* a negative mean gives nan, which exceeds nothing
EnergyAboveThreshold(chunk) == 625 * SumSq16(chunk) > 67108864 * Len(chunk)

\* a frame whose root-mean-square over 32768, with exact squares, exceeds the
\* threshold: a speech frame in the sense of the VoiceActivityGate
\* (mean of squares > 327.68^2 = 107374 + 114/625).  SumSq adds up what the
\* squares exceed 107374 by, in 32-bit integers: a partial sum is held at
\* 1000000, which the other samples of a frame of up to 9 cannot undo
RECURSIVE SumSq(_)
SumSq(chunk) ==
  IF chunk = <<>> THEN 0
  ELSE LET s == Head(chunk) * Head(chunk) - 107374 + SumSq(Tail(chunk))
       IN IF s > 1000000 THEN 1000000 ELSE s
IsSpeechFrame(chunk) == SumSq(chunk) > (114 * Len(chunk)) \div 625

NoTime == -1
RecIdle == [start_time |-> NoTime, silence_start |-> NoTime, chunks |-> 0,
            max_duration |-> 0, exit |-> "-", result |-> "None", loud |-> FALSE]

\* the VAD branch taken for a chunk: "speech", "silence" or "endpoint"
VadStep(t, chunk) ==
  IF EnergyAboveThreshold(chunk) THEN "speech"
  ELSE IF rec[t].silence_start = NoTime THEN "silence"
  ELSE IF now - rec[t].silence_start > VAD_SILENCE_DURATION THEN "endpoint"
  ELSE "silence"

\* record_with_vad entered with max_duration d (None: the configured maximum)
StartRecord(t, d) ==
  rec' = [rec EXCEPT ![t] = [RecIdle EXCEPT !.max_duration = d]]

\* lines 41-47: the is_recording guard and the availability check
rec_guard(t) ==
  /\ At(t, "rec_guard")
  /\ IF am_is_recording \/ ~alsa["rec"].is_available
     THEN Return(t, "None") /\ rec' = [rec EXCEPT ![t] = RecIdle]
     ELSE Goto(t, "rec_set") /\ UNCHANGED <<rv, rec>>
  /\ UNCHANGED <<req, audioVars>>
  /\ UNCHANGED nonAudioVars

\* lines 55-65: is_recording = True, then create_recording_stream is called
rec_set(t) ==
  /\ At(t, "rec_set")
  /\ am_is_recording' = TRUE
  /\ req' = [req EXCEPT ![t] = [m |-> "rec", dir |-> "capture", pcm |->
               [channels |-> CHANNELS, rate |-> SAMPLE_RATE, period_size |-> FRAME_SIZE]]]
  /\ Call(t, "create_check", "rec_created")
  /\ UNCHANGED <<rv, rec, alsa, am_is_playing>>
  /\ UNCHANGED nonAudioVars

\* lines 61-72: the stream could not be created (return None), or the loop starts
rec_created(t) ==
  /\ At(t, "rec_created")
  /\ IF rv[t] = "True"
     THEN /\ rec' = [rec EXCEPT ![t].start_time = now]
          /\ Goto(t, "rec_loop")
     ELSE /\ rec' = [rec EXCEPT ![t].exit = "nostream"]
          /\ Goto(t, "rec_finally")
  /\ UNCHANGED <<rv, req, audioVars>>
  /\ UNCHANGED nonAudioVars

\* lines 74-113: one evaluation of the while condition and one iteration
rec_loop(t) ==
  /\ At(t, "rec_loop")
  /\ IF ~am_is_recording
     THEN /\ rec' = [rec EXCEPT ![t].exit = "stopped"]
          /\ Goto(t, "rec_close")
     ELSE IF ~(now - rec[t].start_time < rec[t].max_duration)
     THEN /\ rec' = [rec EXCEPT ![t].exit = "max_duration"]
          /\ Goto(t, "rec_close")
     ELSE \E r \in ReadOutcomes("rec") \cup {"raise"} :
            \/ /\ r \in {"None", "empty"}
               /\ UNCHANGED <<rec, stack>>
            \/ /\ r = "raise"
               /\ rec' = [rec EXCEPT ![t].exit = "error"]
               /\ Goto(t, "rec_close")
            \/ /\ r = "data"
               /\ rec[t].chunks < MaxChunks
               /\ \E chunk \in Chunks :
                    LET branch == VadStep(t, chunk)
                        heard == [rec[t] EXCEPT !.chunks = @ + 1,
                                                !.loud = @ \/ IsSpeechFrame(chunk)]
                    IN IF branch = "speech"
                       THEN /\ rec' = [rec EXCEPT ![t] = [heard EXCEPT !.silence_start = NoTime]]
                            /\ UNCHANGED stack
                       ELSE IF branch = "endpoint"
                       THEN /\ rec' = [rec EXCEPT ![t] = [heard EXCEPT !.exit = "silence"]]
                            /\ Goto(t, "rec_close")
                       ELSE /\ rec' = [rec EXCEPT ![t] =
                                  [heard EXCEPT !.silence_start =
                                     IF @ = NoTime THEN now ELSE @]]
                            /\ UNCHANGED stack
  /\ UNCHANGED <<rv, req, audioVars>>
  /\ UNCHANGED nonAudioVars

\* line 116: close_recording_stream is called
rec_close(t) ==
  /\ At(t, "rec_close")
  /\ req' = [req EXCEPT ![t] = [m |-> "rec", dir |-> "capture", pcm |-> NoPcm]]
  /\ Call(t, "close_lock", "rec_save")
  /\ UNCHANGED <<rv, rec, audioVars>>
  /\ UNCHANGED nonAudioVars

\* a record_with_vad that writes a file whatever was captured
rec_save_always(t) ==
  /\ At(t, "rec_save")
  /\ rec' = [rec EXCEPT ![t].result = "file"]
  /\ Goto(t, "rec_finally")
  /\ UNCHANGED <<rv, req, audioVars>>
  /\ UNCHANGED nonAudioVars

\* lines 118-146: nothing recorded (None), the file is written, or writing raises
rec_save(t) ==
  /\ At(t, "rec_save")
  /\ IF rec[t].chunks = 0
     THEN rec' = [rec EXCEPT ![t].result = "None"]
     ELSE \E saved \in BOOLEAN :
            rec' = [rec EXCEPT ![t].result = IF saved THEN "file" ELSE "None"]
  /\ Goto(t, "rec_finally")
  /\ UNCHANGED <<rv, req, audioVars>>
  /\ UNCHANGED nonAudioVars

\* lines 147-151: is_recording = False and the defensive close
rec_finally(t) ==
  /\ At(t, "rec_finally")
  /\ am_is_recording' = FALSE
  /\ IF alsa["rec"].is_recording
     THEN /\ req' = [req EXCEPT ![t] = [m |-> "rec", dir |-> "capture", pcm |-> NoPcm]]
          /\ Call(t, "close_lock", "rec_return")
     ELSE /\ Goto(t, "rec_return")
          /\ UNCHANGED req
  /\ UNCHANGED <<rv, rec, alsa, am_is_playing>>
  /\ UNCHANGED nonAudioVars

\* record_with_vad returns, and its locals are gone
rec_return(t) ==
  /\ At(t, "rec_return")
  /\ Return(t, rec[t].result)
  /\ rec' = [rec EXCEPT ![t] = RecIdle]
  /\ UNCHANGED <<req, audioVars>>
  /\ UNCHANGED nonAudioVars

\* AudioManager.stop_recording, from another thread
stop_recording ==
  /\ am_is_recording
  /\ am_is_recording' = FALSE
  /\ UNCHANGED <<threadVars, alsa, am_is_playing>>
  /\ UNCHANGED nonAudioVars

AlsaStep(t) ==
  \/ create_check(t)
  \/ create_lock(t)
  \/ create_open(t)
  \/ close_lock(t)
  \/ close_body(t)

RecordStep(t) ==
  \/ rec_guard(t)
  \/ rec_set(t)
  \/ rec_created(t)
  \/ rec_loop(t)
  \/ rec_close(t)
  \/ rec_save(t)
  \/ rec_finally(t)
  \/ rec_return(t)

(***************************************************************************)
(* SharedAudioManager (the PyAudio arbiter): create_stream, close_stream.  *)
(* stream_lock is a threading.Lock: not reentrant.                         *)
(***************************************************************************)
Registered(id) == active_streams[id] # NoPcm

\* create_stream, lines 57-59: PyAudio not available
create_stream_check(t) ==
  /\ At(t, "create_stream_check")
  /\ IF ~pyaudio_instance THEN Return(t, "None")
     ELSE Goto(t, "create_stream_lock") /\ UNCHANGED rv
  /\ UNCHANGED <<req, rec, audioVars, sharedVars>>
  /\ UNCHANGED <<now, detVars, wakeLogVars, resampleVars, matchVars, extVars, srvVars>>

\* create_stream, line 61: `with self.stream_lock:` entered
create_stream_lock(t) ==
  /\ At(t, "create_stream_lock")
  /\ stream_lock = 0
  /\ stream_lock' = t
  /\ Goto(t, "create_stream_body")
  /\ UNCHANGED <<rv, req, rec, audioVars, pyaudio_instance, active_streams>>
  /\ UNCHANGED <<now, detVars, wakeLogVars, resampleVars, matchVars, extVars, srvVars>>

\* create_stream, lines 63-64: an existing stream of that id is closed first,
\* by a call of close_stream made with stream_lock held
create_stream_body(t) ==
  /\ At(t, "create_stream_body")
  /\ IF Registered(req[t].m)
     THEN Call(t, "close_stream_lock", "create_stream_open")
     ELSE Goto(t, "create_stream_open")
  /\ UNCHANGED <<rv, req, rec, audioVars, sharedVars>>
  /\ UNCHANGED <<now, detVars, wakeLogVars, resampleVars, matchVars, extVars, srvVars>>

\* create_stream, lines 66-77: pyaudio open, registered on success
create_stream_open(t) ==
  /\ At(t, "create_stream_open")
  /\ \E opened \in BOOLEAN :
       IF opened
       THEN /\ active_streams' = [active_streams EXCEPT ![req[t].m] = req[t].pcm]
            /\ Return(t, "stream")
       ELSE /\ UNCHANGED active_streams
            /\ Return(t, "None")
  /\ stream_lock' = 0
  /\ UNCHANGED <<req, rec, audioVars, pyaudio_instance>>
  /\ UNCHANGED <<now, detVars, wakeLogVars, resampleVars, matchVars, extVars, srvVars>>

\* close_stream, line 81: `with self.stream_lock:` entered
close_stream_lock(t) ==
  /\ At(t, "close_stream_lock")
  /\ stream_lock = 0
  /\ stream_lock' = t
  /\ Goto(t, "close_stream_body")
  /\ UNCHANGED <<rv, req, rec, audioVars, pyaudio_instance, active_streams>>
  /\ UNCHANGED <<now, detVars, wakeLogVars, resampleVars, matchVars, extVars, srvVars>>

\* a close_stream that deletes the entry without looking it up first
close_stream_body_unchecked(t) ==
  /\ At(t, "close_stream_body")
  /\ active_streams' = [active_streams EXCEPT ![req[t].m] = NoPcm]
  /\ stream_lock' = 0
  /\ Return(t, IF Registered(req[t].m) THEN "None" ELSE "KeyError")
  /\ UNCHANGED <<req, rec, audioVars, pyaudio_instance>>
  /\ UNCHANGED <<now, detVars, wakeLogVars, resampleVars, matchVars, extVars, srvVars>>

\* close_stream, lines 82-92: stop and close (an exception is swallowed), and
\* the entry is deleted in any case
close_stream_body(t) ==
  /\ At(t, "close_stream_body")
  /\ active_streams' = [active_streams EXCEPT ![req[t].m] = NoPcm]
  /\ stream_lock' = 0
  /\ Return(t, "None")
  /\ UNCHANGED <<req, rec, audioVars, pyaudio_instance>>
  /\ UNCHANGED <<now, detVars, wakeLogVars, resampleVars, matchVars, extVars, srvVars>>

SharedStep(t) ==
  \/ create_stream_check(t)
  \/ create_stream_lock(t)
  \/ create_stream_body(t)
  \/ create_stream_open(t)
  \/ close_stream_lock(t)
  \/ close_stream_body(t)

ThreadsIdle ==
  /\ stack = [t \in Threads |-> <<>>]
  /\ rv = [t \in Threads |-> "None"]
  /\ req = [t \in Threads |-> NoReq]
  /\ rec = [t \in Threads |-> RecIdle]

\* the managers as constructed, whether or not alsaaudio could be imported
AudioIdleEither ==
  /\ \E available \in BOOLEAN :
       alsa = [m \in Managers |-> [AlsaInit EXCEPT !.is_available = available]]
  /\ am_is_recording = FALSE
  /\ am_is_playing = FALSE

AudioIdle ==
  /\ alsa = [m \in Managers |-> AlsaInit]
  /\ am_is_recording = FALSE
  /\ am_is_playing = FALSE

\* FurbyConfig.SERVO_CLOSED_POSITION
SERVO_CLOSED_POSITION == 90

\* no command has been sent to the servo
NoPulse == -1

\* ServoController.__init__ without a pigpio connection (mock servo)
ServoIdle ==
  /\ current_position = SERVO_CLOSED_POSITION
  /\ servo_active = FALSE
  /\ moves = [t \in Threads |-> <<>>]
  /\ commanded = [t \in Threads |-> FALSE]
  /\ pulse = NoPulse

\* no send_text_for_response call under examination
NoBackendCall ==
  [pc |-> "idle", max_retries |-> 0, attempt |-> 0, log |-> <<>>, slept |-> 0,
   returned |-> 0, result |-> [audio |-> "-", phonemes |-> <<>>, isFallback |-> FALSE]]
BackendIdle == backend = NoBackendCall

\* no frame under examination
EnergyIdle ==
  /\ audio_np = <<>>
  /\ voice = "-"

\* FurbyServer.__init__: the flags, the servo controller, the backend client
ServerIdle ==
  /\ is_processing = FALSE
  /\ listen_thread = 0
  /\ join_start = NoTime
  /\ ServoIdle
  /\ BackendIdle
  /\ EnergyIdle

\* SharedAudioManager has been constructed once: _instance is set and
\* __init__ has run
SingletonBuilt ==
  singleton = [instance |-> TRUE, initialized |-> "True", lock |-> 0, created |-> 1, inits |-> 1]

SharedIdle ==
  /\ SingletonBuilt
  /\ pyaudio_instance = TRUE
  /\ active_streams = [id \in StreamIds |-> NoPcm]
  /\ stream_lock = 0

\* nothing computed yet
NoOut == [accepted |-> 0, conf |-> <<>>, done |-> FALSE]
\* no text under examination
MatchIdle ==
  /\ m_words = wake_words
  /\ m_text = <<>>
  /\ m_out = NoOut

ResampleIdle ==
  /\ raw_data = <<>>
  /\ vosk_out = <<>>
  /\ ppc = "ready"
  /\ MatchIdle

WakeIdleAt ==
  /\ is_listening = FALSE
  /\ is_paused = FALSE
  /\ last_detection = 0
  /\ callback_times = <<>>
  /\ feeds = <<>>

WakeIdle ==
  /\ now = 0
  /\ is_listening = FALSE
  /\ is_paused = FALSE
  /\ last_detection = 0
  /\ callback_times = <<>>
  /\ feeds = <<>>

(***************************************************************************)
(* _check_wake_word driven text by text (SpecWake): a detector with a      *)
(* callback that only records the call, fed decoded texts while time       *)
(* passes; resume_listening may be called from outside between feeds.      *)
(***************************************************************************)
\* time.time() when the program starts: far more than one cooldown after 0
StartTime == 2 * WAKE_WORD_COOLDOWN

T_furby == W_furby
T_hey_furby == W_hey \o <<SP>> \o W_furby
T_Furby_padded == <<SP>> \o W_Furby \o <<SP>>
T_hello == W_hello
DecodedTexts == {<<>>, T_furby, T_hey_furby, T_Furby_padded, T_hello}

WakeInit ==
  /\ now = StartTime
  /\ is_listening \in BOOLEAN
  /\ is_paused = FALSE
  /\ last_detection = 0
  /\ callback_times = <<>>
  /\ feeds = <<>>
  /\ ResampleIdle
  /\ ThreadsIdle
  /\ AudioIdle
  /\ ServerIdle
  /\ SharedIdle

\* one call of _check_wake_word(text), the callback included
WakeFeed(text) ==
  /\ Len(feeds) < MaxFeeds
  /\ feeds' = Append(feeds, [time |-> now, text |-> text, paused |-> is_paused,
                             fired |-> WakeWordAccepted(text)])
  /\ IF WakeWordAccepted(text)
     THEN /\ last_detection' = now
          /\ is_paused' = PausedAfterPause
          /\ callback_times' = Append(callback_times, now)
     ELSE UNCHANGED <<last_detection, is_paused, callback_times>>
  /\ UNCHANGED <<now, is_listening, resampleVars, sysVars>>

\* resume_listening() called by whoever the callback handed the session to
WakeResume ==
  /\ is_paused
  /\ is_paused' = PausedAfterResume
  /\ UNCHANGED <<now, is_listening, last_detection, wakeLogVars, resampleVars, matchVars, extVars,
                 sysVars>>

Tick ==
  /\ now < StartTime + MaxElapsed
  /\ now' = now + 1
  /\ UNCHANGED <<detVars, wakeLogVars, resampleVars, sysVars>>

WakeNext ==
  \/ \E text \in DecodedTexts : WakeFeed(text)
  \/ WakeResume
  \/ Tick

SpecWake == WakeInit /\ [][WakeNext]_vars

\* C5: any two callback invocations are at least cooldown_seconds apart,
\* measured at detection time, whatever texts are decoded (so two identical
\* detections within the cooldown give one invocation), and last_detection
\* changes only on an accepted detection, to the time of that detection.
C5_CooldownIdempotent ==
  /\ [](\A i, j \in 1..Len(callback_times) :
          i < j => callback_times[j] - callback_times[i] >= WAKE_WORD_COOLDOWN)
  /\ [][last_detection' # last_detection
          => /\ callback_times' = Append(callback_times, now)
             /\ last_detection' = now]_vars

C5_Witness ==
  /\ Len(callback_times) = 2
  /\ Len(feeds) = 3
  /\ feeds[1].text = feeds[2].text
  /\ feeds[1].fired /\ ~feeds[2].fired /\ ~feeds[2].paused /\ feeds[3].fired
  /\ feeds[2].time - feeds[1].time < WAKE_WORD_COOLDOWN

\* the end-to-end scenario: "furby" three times on a started listener, the
\* second within 1 s of the first, the third 6 s or more later
FurbyScenario ==
  /\ is_listening
  /\ Len(feeds) = 3
  /\ \A i \in 1..3 : feeds[i].text = T_furby
  /\ feeds[2].time - feeds[1].time <= 1
  /\ feeds[3].time - feeds[2].time >= 6

\* C6 (as stated): for any registered callback the first "furby" fires the
\* callback, the second within 1 s does not, the third after 6 s fires it again.
C6_AnyCallback ==
  FurbyScenario => (feeds[1].fired /\ ~feeds[2].fired /\ feeds[3].fired)

\* C6 (amended): the first "furby" fires the callback, the second within 1 s
\* does not, and the third after 6 s fires it again exactly when the listener
\* has been resumed since the first detection paused it; under a callback that
\* never resumes the listener the third "furby" does not fire.
C6_ResumedCallback ==
  FurbyScenario =>
    /\ feeds[1].fired
    /\ ~feeds[2].fired
    /\ feeds[3].fired <=> ~feeds[3].paused

C6_Witness ==
  /\ FurbyScenario
  /\ ~feeds[3].paused
  /\ feeds[3].fired
  /\ Len(callback_times) = 2

(***************************************************************************)
(* The /record route on its own (SpecVad): one request thread records      *)
(* while time passes; stop_recording may be called from outside.           *)
(***************************************************************************)
\* max_duration of a /record request
RequestDurations == {1, 4}

\* FurbyServer.record: self.audio_manager.record_with_vad(max_duration)
api_record(t) ==
  /\ t = ApiThread
  /\ stack[t] = <<>>
  /\ \E d \in RequestDurations : StartRecord(t, d)
  /\ stack' = [stack EXCEPT ![t] = <<"rec_guard", "record_done">>]
  /\ UNCHANGED <<rv, req, audioVars>>
  /\ UNCHANGED nonAudioVars

\* FurbyServer.record: the response is sent
api_record_done(t) ==
  /\ At(t, "record_done")
  /\ stack' = [stack EXCEPT ![t] = <<>>]
  /\ UNCHANGED <<rv, req, rec, audioVars>>
  /\ UNCHANGED nonAudioVars

VadInit ==
  /\ now = StartTime
  /\ WakeIdleAt
  /\ ResampleIdle
  /\ ThreadsIdle
  /\ AudioIdleEither
  /\ ServerIdle
  /\ SharedIdle

VadNext ==
  \/ api_record(ApiThread)
  \/ api_record_done(ApiThread)
  \/ RecordStep(ApiThread)
  \/ AlsaStep(ApiThread)
  \/ stop_recording
  \/ Tick

SpecVad == VadInit /\ [][VadNext]_vars

\* C4: silence before speech does not end-point a recording: record_with_vad
\* leaves its loop on sustained silence only after a speech frame has been read
\* in this call, so on a stream of only silent frames it runs to max_duration.
C4_NoEndpointBeforeSpeech ==
  \A t \in Threads : rec[t].exit = "silence" => rec[t].loud

C14_UtteranceOrNone ==
  \A t \in Threads :
    /\ At(t, "rec_return") =>
         /\ rec[t].result \in {"file", "None"}
         /\ rec[t].result = "file" =>
              (rec[t].exit \notin {"-", "nostream"} /\ rec[t].chunks >= 1)
         /\ (rec[t].exit = "nostream" \/ rec[t].chunks = 0) => rec[t].result = "None"
    /\ At(t, "record_done") =>
         /\ rv[t] \in {"file", "None"}
         /\ ~alsa["rec"].is_available => rv[t] = "None"

\* a recording that captured a frame returns its file
C14_Witness ==
  \E t \in Threads :
    /\ At(t, "rec_return")
    /\ rec[t].result = "file"
    /\ rec[t].chunks >= 1

(***************************************************************************)
(* The arbiters on their own (SpecArb): a test program that opens and      *)
(* closes streams on the AlsaAudioManager instances and on the             *)
(* SharedAudioManager, one call after the other.                           *)
(***************************************************************************)
\* the streams test_complete_audio_system asks for (period_size None)
TestParams == {[channels |-> 2, rate |-> 48000, period_size |-> 0],
               [channels |-> 1, rate |-> 16000, period_size |-> 0]}

\* alsa_audio.create_recording_stream(channels=..., rate=...)
test_create(t) ==
  /\ stack[t] = <<>>
  /\ \E m \in Managers, dir \in Directions, pcm \in TestParams :
       req' = [req EXCEPT ![t] = [m |-> m, dir |-> dir, pcm |-> pcm]]
  /\ stack' = [stack EXCEPT ![t] = <<"create_check", "test_created">>]
  /\ UNCHANGED <<rv, rec, audioVars>>
  /\ UNCHANGED nonAudioVars

\* alsa_audio.close_recording_stream()
test_close(t) ==
  /\ stack[t] = <<>>
  /\ \E m \in Managers, dir \in Directions :
       req' = [req EXCEPT ![t] = [m |-> m, dir |-> dir, pcm |-> NoPcm]]
  /\ stack' = [stack EXCEPT ![t] = <<"close_lock", "test_done">>]
  /\ UNCHANGED <<rv, rec, audioVars>>
  /\ UNCHANGED nonAudioVars

\* shared_audio.create_stream(stream_id, channels=..., rate=..., input=True)
test_create_stream(t) ==
  /\ stack[t] = <<>>
  /\ \E id \in StreamIds, pcm \in TestParams : req' = [req EXCEPT ![t] = [m |-> id, dir |-> "capture", pcm |-> pcm]]
  /\ stack' = [stack EXCEPT ![t] = <<"create_stream_check", "test_stream_created">>]
  /\ UNCHANGED <<rv, rec, audioVars>>
  /\ UNCHANGED nonAudioVars

\* shared_audio.close_stream(stream_id)
test_close_stream(t) ==
  /\ stack[t] = <<>>
  /\ \E id \in StreamIds : req' = [req EXCEPT ![t] = [m |-> id, dir |-> "capture", pcm |-> NoPcm]]
  /\ stack' = [stack EXCEPT ![t] = <<"close_stream_lock", "test_done">>]
  /\ UNCHANGED <<rv, rec, audioVars>>
  /\ UNCHANGED nonAudioVars

\* the call has returned and the test goes on: arguments and result are dropped
test_return(t) ==
  /\ \/ At(t, "test_created")
     \/ At(t, "test_stream_created")
     \/ At(t, "test_done")
  /\ stack' = [stack EXCEPT ![t] = <<>>]
  /\ rv' = [rv EXCEPT ![t] = "None"]
  /\ req' = [req EXCEPT ![t] = NoReq]
  /\ UNCHANGED <<rec, audioVars>>
  /\ UNCHANGED nonAudioVars

ArbInit ==
  /\ now = StartTime
  /\ WakeIdleAt
  /\ ResampleIdle
  /\ ThreadsIdle
  /\ AudioIdleEither
  /\ ServerIdle
  /\ SingletonBuilt
  /\ pyaudio_instance \in BOOLEAN
  /\ active_streams = [id \in StreamIds |-> NoPcm]
  /\ stream_lock = 0

\* a second thread that only closes, as a shutdown path does
Closer == 1

ArbNext ==
  \/ test_create(ApiThread)
  \/ test_close(ApiThread)
  \/ test_create_stream(ApiThread)
  \/ test_close_stream(ApiThread)
  \/ test_return(ApiThread)
  \/ AlsaStep(ApiThread)
  \/ SharedStep(ApiThread)
  \/ test_close(Closer)
  \/ test_close_stream(Closer)
  \/ test_return(Closer)
  \/ AlsaStep(Closer)
  \/ SharedStep(Closer)

SpecArb == ArbInit /\ [][ArbNext]_vars

\* the stream of direction dir on manager m is closed: no handle, flag false
StreamClosed(m, dir) ==
  IF dir = "capture"
  THEN alsa[m].recording_pcm = NoPcm /\ ~alsa[m].is_recording
  ELSE alsa[m].playback_pcm = NoPcm /\ ~alsa[m].is_playing

\* thread t takes the step that leaves location l
Leaves(t, l) == At(t, l) /\ stack'[t] # stack[t]

C16_FailedOpenLeavesNoTrace ==
  [][\A t \in Threads :
       /\ (Leaves(t, "create_check") /\ ~alsa[req[t].m].is_available) =>
            (rv'[t] = "False" /\ alsa' = alsa)
       /\ (Leaves(t, "create_open") /\ rv'[t] = "False") =>
            /\ alsa' = [alsa EXCEPT ![req[t].m].lock = 0]
            /\ StreamClosed(req[t].m, req[t].dir)'
       /\ (Leaves(t, "create_stream_check") /\ ~pyaudio_instance) =>
            (rv'[t] = "None" /\ active_streams' = active_streams /\ stream_lock' = stream_lock)
       /\ (Leaves(t, "create_stream_open") /\ rv'[t] = "None") =>
            /\ active_streams' = active_streams
            /\ ~Registered(req[t].m)'
            /\ stream_lock' = 0
    ]_vars

\* an open on an available device has just failed: nothing is registered and
\* the lock is free
C16_Witness ==
  /\ At(ApiThread, "test_created")
  /\ rv[ApiThread] = "False"
  /\ alsa[req[ApiThread].m].is_available
  /\ StreamClosed(req[ApiThread].m, req[ApiThread].dir)
  /\ alsa[req[ApiThread].m].lock = 0

\* t waits to enter `with self.stream_lock:`
WaitsForStreamLock(t) == At(t, "create_stream_lock") \/ At(t, "close_stream_lock")

\* C24: no operation of SharedAudioManager blocks forever: stream_lock is
\* never held by a thread that is itself waiting to acquire it, so every call
\* that waits for the lock gets it once the holder returns.
C24_LockHolderNeverWaits ==
  \A t \in Threads : stream_lock = t => ~WaitsForStreamLock(t)

\* C3: opening a stream on a logical stream that already has an open handle
\* replaces it: when the open returns a handle, the handle registered for the
\* logical stream is one with the newly requested channels, rate and frame
\* size, and the open never waits for the old handle's close to get a lock the
\* opening thread itself holds.
C3_OpenReplaces ==
  \A t \in Threads :
    /\ (At(t, "test_created") /\ rv[t] = "True" /\ req[t].dir = "capture")
          => alsa[req[t].m].recording_pcm = OpenedPcm(req[t].pcm)
    /\ (At(t, "test_stream_created") /\ rv[t] = "stream")
          => active_streams[req[t].m] = req[t].pcm
    /\ At(t, "close_stream_lock") => stream_lock # t

(***************************************************************************)
(* WakeWordDetector._listen_loop, run by a loop thread.                    *)
(***************************************************************************)
\* the stream the listener opens: 48 kHz stereo, period FRAME_SIZE
WakeStream == [channels |-> WAKE_CHANNELS, rate |-> WAKE_RATE, period_size |-> FRAME_SIZE]
\* listen_thread.join(timeout=3.0)
JOIN_TIMEOUT == 3
\* Thread.is_alive()
is_alive(t) == stack[t] # <<>>

\* lines 127-131: create_recording_stream is called
listen_loop(t) ==
  /\ At(t, "listen_loop")
  /\ req' = [req EXCEPT ![t] = [m |-> "det", dir |-> "capture", pcm |-> WakeStream]]
  /\ Call(t, "create_check", "listen_created")
  /\ UNCHANGED <<rv, rec, audioVars>>
  /\ UNCHANGED nonAudioVars

\* lines 127-135: no stream (return, through finally), or the loop is entered
listen_created(t) ==
  /\ At(t, "listen_created")
  /\ IF rv[t] = "True" THEN Goto(t, "listen_while") ELSE Goto(t, "listen_finally")
  /\ UNCHANGED <<rv, req, rec, audioVars>>
  /\ UNCHANGED nonAudioVars

\* lines 137-143: the while condition, and the skip while the stream is
\* closed for a manual recording
listen_while(t) ==
  /\ At(t, "listen_while")
  /\ IF ~is_listening THEN Goto(t, "listen_finally")
     ELSE IF is_paused /\ ~alsa["det"].is_recording THEN UNCHANGED stack
     ELSE Goto(t, "listen_recreate")
  /\ UNCHANGED <<rv, req, rec, audioVars>>
  /\ UNCHANGED nonAudioVars

\* lines 146-152: the stream is recreated after a resume
listen_recreate(t) ==
  /\ At(t, "listen_recreate")
  /\ IF ~is_paused /\ ~alsa["det"].is_recording
     THEN /\ req' = [req EXCEPT ![t] = [m |-> "det", dir |-> "capture", pcm |-> WakeStream]]
          /\ Call(t, "create_check", "listen_recreated")
     ELSE /\ Goto(t, "listen_paused")
          /\ UNCHANGED req
  /\ UNCHANGED <<rv, rec, audioVars>>
  /\ UNCHANGED nonAudioVars

\* lines 148-156: recreation failed (sleep, continue) or succeeded
listen_recreated(t) ==
  /\ At(t, "listen_recreated")
  /\ IF rv[t] = "True" THEN Goto(t, "listen_paused") ELSE Goto(t, "listen_while")
  /\ UNCHANGED <<rv, req, rec, audioVars>>
  /\ UNCHANGED nonAudioVars

\* lines 159-168: while paused the stream is read and the data dropped
listen_paused(t) ==
  /\ At(t, "listen_paused")
  /\ IF is_paused THEN Goto(t, "listen_while") ELSE Goto(t, "listen_read")
  /\ UNCHANGED <<rv, req, rec, audioVars>>
  /\ UNCHANGED nonAudioVars

\* the texts the recognizer returns in the running system
HeardTexts == {T_furby, T_hello}

\* lines 171-192 with _check_wake_word (261-284): a frame is read, decoded and
\* checked; an accepted detection sets last_detection, pauses and calls the
\* callback, FurbyServer.handle_wake_word
listen_read(t) ==
  /\ At(t, "listen_read")
  /\ \E r \in ReadOutcomes("det") :
       \/ /\ r \in {"None", "empty"}
          /\ Goto(t, "listen_while")
          /\ UNCHANGED <<last_detection, is_paused>>
       \/ /\ r = "data"
          /\ \E text \in HeardTexts :
               IF WakeWordAccepted(text)
               THEN /\ last_detection' = now
                    /\ is_paused' = PausedAfterPause
                    /\ Call(t, "handle_wake_word", "listen_while")
               ELSE /\ Goto(t, "listen_while")
                    /\ UNCHANGED <<last_detection, is_paused>>
  /\ UNCHANGED <<rv, req, rec, audioVars>>
  /\ UNCHANGED <<now, is_listening, wakeLogVars, resampleVars, matchVars, extVars, srvVars, sharedVars>>

\* line 203: finally, _cleanup_audio closes the stream
listen_finally(t) ==
  /\ At(t, "listen_finally")
  /\ req' = [req EXCEPT ![t] = [m |-> "det", dir |-> "capture", pcm |-> NoPcm]]
  /\ Call(t, "close_lock", "listen_exit")
  /\ UNCHANGED <<rv, rec, audioVars>>
  /\ UNCHANGED nonAudioVars

\* line 204: the loop thread ends
listen_exit(t) ==
  /\ At(t, "listen_exit")
  /\ stack' = [stack EXCEPT ![t] = <<>>]
  /\ UNCHANGED <<rv, req, rec, audioVars>>
  /\ UNCHANGED nonAudioVars

(***************************************************************************)
(* FurbyServer.handle_wake_word, the detector's callback: it runs on the   *)
(* loop thread that made the detection.                                    *)
(***************************************************************************)
\* lines 205-207: the re-entrancy guard
handle_wake_word(t) ==
  /\ At(t, "handle_wake_word")
  /\ IF is_processing THEN Return(t, "None")
     ELSE Goto(t, "handle_set") /\ UNCHANGED rv
  /\ UNCHANGED <<req, rec, audioVars>>
  /\ UNCHANGED nonAudioVars

\* lines 210-215: is_processing = True, then record_with_vad() is called
handle_set(t) ==
  /\ At(t, "handle_set")
  /\ is_processing' = TRUE
  /\ StartRecord(t, MAX_RECORDING_DURATION)
  /\ Call(t, "rec_guard", "handle_recorded")
  /\ UNCHANGED <<rv, req, audioVars>>
  /\ UNCHANGED <<now, detVars, wakeLogVars, resampleVars, matchVars, extVars, listen_thread, join_start,
                 sharedVars>>

\* how the try block of a session ends
SessionOutcomes == {"no_audio", "no_speech", "completed", "error"}

\* lines 217-273: no file (return), empty transcription (return), the
\* response played, or an exception caught; all continue in finally
handle_recorded(t) ==
  /\ At(t, "handle_recorded")
  /\ \E outcome \in SessionOutcomes :
       /\ (outcome = "no_audio") <=> (rv[t] # "file")
       /\ rv' = [rv EXCEPT ![t] = outcome]
  /\ Goto(t, "handle_finally")
  /\ UNCHANGED <<req, rec, audioVars>>
  /\ UNCHANGED nonAudioVars

\* line 275: finally, is_processing = False
handle_finally(t) ==
  /\ At(t, "handle_finally")
  /\ is_processing' = FALSE
  /\ Goto(t, "handle_resume")
  /\ UNCHANGED <<rv, req, rec, audioVars>>
  /\ UNCHANGED <<now, detVars, wakeLogVars, resampleVars, matchVars, extVars, listen_thread, join_start,
                 sharedVars>>

\* lines 277-280: resume_listening(), and the callback returns
handle_resume(t) ==
  /\ At(t, "handle_resume")
  /\ is_paused' = PausedAfterResume
  /\ Return(t, "None")
  /\ UNCHANGED <<req, rec, audioVars>>
  /\ UNCHANGED <<now, is_listening, last_detection, wakeLogVars, resampleVars, matchVars, extVars, srvVars,
                 sharedVars>>

\* the invocation of handle_wake_word on t is past the is_processing guard
\* and has not reached the end of its try block's finally assignment
PastGuard(t) ==
  \/ InCall(t, "handle_set")
  \/ InCall(t, "handle_recorded")
  \/ InCall(t, "handle_finally")

\* t is in a session: past the guard and not yet returned
InSession(t) == PastGuard(t) \/ InCall(t, "handle_resume")

(***************************************************************************)
(* start_listening and stop_listening, called on the request thread (the   *)
(* routes /start_listening and /stop_listening, and FurbyServer.run).      *)
(***************************************************************************)
\* the thread object start_listening creates: a loop thread not running
FreeLoopThreads == {t \in LoopThreads : ~is_alive(t)}

\* start_listening is called; is_available holds (the Vosk model is loaded)
start_listening(t) ==
  /\ stack[t] = <<>>
  /\ is_listening \/ FreeLoopThreads # {}
  /\ stack' = [stack EXCEPT ![t] = <<"start_body">>]
  /\ UNCHANGED <<rv, req, rec, audioVars>>
  /\ UNCHANGED nonAudioVars

\* a start_listening without the is_listening check
AlreadyListening_never == FALSE

\* `if self.is_listening: return` (line 75)
AlreadyListening == is_listening

\* lines 75-89: nothing if already listening; otherwise the flags are set and
\* the loop thread is created and started
start_body(t) ==
  /\ At(t, "start_body")
  /\ IF AlreadyListening
     THEN /\ stack' = [stack EXCEPT ![t] = <<>>]
          /\ UNCHANGED <<is_listening, is_paused, listen_thread>>
     ELSE /\ LET new == CHOOSE l \in FreeLoopThreads : \A o \in FreeLoopThreads : l <= o
             IN /\ listen_thread' = new
                /\ stack' = [stack EXCEPT ![t] = <<>>, ![new] = <<"listen_loop">>]
          /\ is_listening' = TRUE
          /\ is_paused' = FALSE
  /\ UNCHANGED <<rv, req, rec, audioVars>>
  /\ UNCHANGED <<now, last_detection, wakeLogVars, resampleVars, matchVars, extVars, is_processing,
                 join_start, sharedVars>>

\* lines 299-305: is_listening = False, and the join starts if the thread is alive
stop_listening(t) ==
  /\ stack[t] = <<>>
  /\ is_listening' = FALSE
  /\ IF listen_thread # 0 /\ is_alive(listen_thread)
     THEN /\ join_start' = now
          /\ stack' = [stack EXCEPT ![t] = <<"stop_join">>]
     ELSE /\ UNCHANGED join_start
          /\ stack' = [stack EXCEPT ![t] = <<"stop_cleanup">>]
  /\ UNCHANGED <<rv, req, rec, audioVars>>
  /\ UNCHANGED <<now, is_paused, last_detection, wakeLogVars, resampleVars, matchVars, extVars,
                 is_processing, listen_thread, sharedVars>>

\* lines 305-307: join returns when the thread has ended or after the timeout
stop_join(t) ==
  /\ At(t, "stop_join")
  /\ \/ ~is_alive(listen_thread)
     \/ now - join_start >= JOIN_TIMEOUT
  /\ join_start' = NoTime
  /\ Goto(t, "stop_cleanup")
  /\ UNCHANGED <<rv, req, rec, audioVars>>
  /\ UNCHANGED <<now, detVars, wakeLogVars, resampleVars, matchVars, extVars, is_processing,
                 listen_thread, sharedVars>>

\* lines 310-312: the cleanup, if the manager says it is recording
stop_cleanup(t) ==
  /\ At(t, "stop_cleanup")
  /\ IF alsa["det"].is_recording
     THEN /\ req' = [req EXCEPT ![t] = [m |-> "det", dir |-> "capture", pcm |-> NoPcm]]
          /\ Call(t, "close_lock", "stop_return")
     ELSE /\ Goto(t, "stop_return")
          /\ UNCHANGED req
  /\ UNCHANGED <<rv, rec, audioVars>>
  /\ UNCHANGED nonAudioVars

\* stop_listening returns
stop_return(t) ==
  /\ At(t, "stop_return")
  /\ stack' = [stack EXCEPT ![t] = <<>>]
  /\ UNCHANGED <<rv, req, rec, audioVars>>
  /\ UNCHANGED nonAudioVars

\* t is inside a call of stop_listening
InStop(t) ==
  \/ InCall(t, "stop_join")
  \/ InCall(t, "stop_cleanup")
  \/ InCall(t, "stop_return")

(***************************************************************************)
(* The running system (Spec): the request thread starts and stops the      *)
(* listener; loop threads listen and run the sessions their detections     *)
(* start, recording included, while time passes.                           *)
(***************************************************************************)
\* time.time() advances while the system runs
Clock ==
  /\ now < StartTime + MaxUptime
  /\ now' = now + 1
  /\ UNCHANGED <<detVars, wakeLogVars, resampleVars, sysVars>>

Init ==
  /\ now = StartTime
  /\ WakeIdleAt
  /\ ResampleIdle
  /\ ThreadsIdle
  /\ AudioIdle
  /\ ServerIdle
  /\ SharedIdle

ListenStep(t) ==
  \/ listen_loop(t)
  \/ listen_created(t)
  \/ listen_while(t)
  \/ listen_recreate(t)
  \/ listen_recreated(t)
  \/ listen_paused(t)
  \/ listen_read(t)
  \/ listen_finally(t)
  \/ listen_exit(t)

SessionStep(t) ==
  \/ handle_wake_word(t)
  \/ handle_set(t)
  \/ handle_recorded(t)
  \/ handle_finally(t)
  \/ handle_resume(t)

ApiStep(t) ==
  \/ start_listening(t)
  \/ start_body(t)
  \/ stop_listening(t)
  \/ stop_join(t)
  \/ stop_cleanup(t)
  \/ stop_return(t)

Next ==
  \/ \E t \in LoopThreads : ListenStep(t)
  \/ \E t \in LoopThreads : SessionStep(t)
  \/ ApiStep(ApiThread)
  \/ \E t \in Threads : RecordStep(t)
  \/ \E t \in Threads : AlsaStep(t)
  \/ Clock

Spec == Init /\ [][Next]_vars

\* C1: at most one capture stream is open on the device: the listener's and
\* the recorder's capture streams are never open at the same time.
C1_OneCaptureStream == ~(CaptureOpen("det") /\ CaptureOpen("rec"))

\* C2: at most one invocation of handle_wake_word is past the is_processing
\* guard at a time, for any interleaving of wake triggers.
C2_OneSession == Cardinality({t \in Threads : PastGuard(t)}) <= 1

\* C7: stop_listening always makes progress on its own: it never waits, in
\* its cleanup, for the arbiter lock while a loop thread holds it, so it
\* returns even if the loop thread never takes another step.
C7_StopNeverWaitsForLoop ==
  \A t \in Threads :
    (InStop(t) /\ At(t, "close_lock")) => alsa["det"].lock \notin LoopThreads

\* C8: once stop_listening has returned, and until start_listening is called
\* again, the listener is stopped and its capture stream is closed.
C8_StoppedMeansClosed ==
  (~is_listening /\ ~InStop(ApiThread)) => ~CaptureOpen("det")

\* the loop threads a step starts
Spawned == {l \in LoopThreads : ~is_alive(l) /\ stack'[l] # <<>>}

\* C17: start_listening on a listener that is already listening (Listening or
\* Paused) spawns no loop thread and leaves is_listening, is_paused and the
\* running loop threads as they are; on a Stopped listener it sets
\* is_listening, clears is_paused and starts exactly one loop thread.
C17_StartOnlyWhenStopped ==
  [][\A t \in Threads :
       Leaves(t, "start_body") =>
         /\ \A l \in LoopThreads : is_alive(l) => stack'[l] = stack[l]
         /\ IF is_listening
            THEN /\ Spawned = {}
                 /\ UNCHANGED <<is_listening, is_paused, listen_thread>>
            ELSE /\ is_listening' /\ ~is_paused'
                 /\ Cardinality(Spawned) = 1
                 /\ listen_thread' \in Spawned
    ]_vars

\* start_listening is running on a Paused listener whose loop thread is alive
C17_Witness ==
  /\ At(ApiThread, "start_body")
  /\ is_listening /\ is_paused
  /\ listen_thread # 0 /\ is_alive(listen_thread)

\* the state of the listener
ListenerState ==
  IF ~is_listening THEN "Stopped" ELSE IF is_paused THEN "Paused" ELSE "Listening"

\* the step is the first one of stop_listening (is_listening = False)
StopStep == stack[ApiThread] = <<>> /\ stack'[ApiThread] \in {<<"stop_join">>, <<"stop_cleanup">>}

\* C18: the listener state changes only by start (Stopped -> Listening), by
\* pause_listening in an accepted detection (Listening -> Paused), by
\* resume_listening (Paused -> Listening) and by stop (any -> Stopped); a
\* pause_listening or resume_listening on a Stopped listener leaves it
\* Stopped with is_paused as it was.
C18_ListenerTransitions ==
  [][/\ ListenerState' # ListenerState =>
          \/ /\ ListenerState = "Stopped" /\ ListenerState' = "Listening"
             /\ \E t \in Threads : Leaves(t, "start_body")
          \/ /\ ListenerState = "Listening" /\ ListenerState' = "Paused"
             /\ \E t \in Threads : Leaves(t, "listen_read")
          \/ /\ ListenerState = "Paused" /\ ListenerState' = "Listening"
             /\ \E t \in Threads : Leaves(t, "handle_resume")
          \/ /\ ListenerState' = "Stopped"
             /\ StopStep
     /\ \A t \in Threads :
          ((Leaves(t, "listen_read") \/ Leaves(t, "handle_resume")) /\ ~is_listening)
            => (~is_listening' /\ is_paused' = is_paused)
    ]_vars

\* resume_listening is about to run on a listener that was stopped while Paused
C18_Witness ==
  /\ ~is_listening
  /\ is_paused
  /\ \E t \in LoopThreads : At(t, "handle_resume")

\* t is a loop thread inside the while loop of _listen_loop (line 137),
\* whatever the iteration is doing (a read, a recreation, the callback)
Iterating(t) ==
  \E l \in {"listen_while", "listen_recreate", "listen_recreated", "listen_paused",
            "listen_read"} : InCall(t, l)

\* C28: at most one loop thread of the detector is executing loop iterations
\* at any time, for any sequence of start_listening and stop_listening calls.
C28_OneLoopIterating ==
  Cardinality({t \in LoopThreads : Iterating(t)}) <= 1

\* C29: whenever the listener is not Stopped (is_listening is true) a loop
\* thread is alive: a loop that ends because the stream cannot be opened or
\* because of an error leaves the listener Stopped.
C29_ListeningHasLoop ==
  is_listening => \E t \in LoopThreads : is_alive(t)

Timelines == {<<>>, <<"zz", "iy">>}

\* a move_to_position without the clamp
Clamp_none(position) == position

\* line 43: position = max(0, min(180, position))
Clamp(position) ==
  LET m == IF 180 < position THEN 180 ELSE position
  IN IF 0 > m THEN 0 ELSE m

\* phoneme.upper() for the phonemes used here
upper(phoneme) ==
  IF phoneme = "aa" THEN "AA" ELSE IF phoneme = "uw" THEN "UW"
  ELSE IF phoneme = "iy" THEN "IY" ELSE IF phoneme = "zz" THEN "ZZ" ELSE phoneme

\* lines 79-87: phoneme_map
phoneme_map ==
  [AA |-> 70, AE |-> 65, AH |-> 60, AO |-> 75, AW |-> 80, AY |-> 70,
   EH |-> 55, ER |-> 60, EY |-> 50, IH |-> 45, IY |-> 40, OW |-> 85,
   OY |-> 80, UH |-> 70, UW |-> 90, B |-> 90, CH |-> 60, D |-> 50,
   DH |-> 45, F |-> 75, G |-> 70, HH |-> 55, JH |-> 65, K |-> 80,
   L |-> 50, M |-> 90, N |-> 55, NG |-> 60, P |-> 90, R |-> 65,
   S |-> 45, SH |-> 55, T |-> 50, TH |-> 45, V |-> 70, W |-> 85,
   Y |-> 50, Z |-> 50, ZH |-> 60]

\* line 88: phoneme_map.get(phoneme.upper(), SERVO_CLOSED_POSITION)
phoneme_to_position(phoneme) ==
  IF upper(phoneme) \in DOMAIN phoneme_map THEN phoneme_map[upper(phoneme)]
  ELSE SERVO_CLOSED_POSITION

\* lines 92-99: emotions.get(emotion, [90, 60, 90])
emotion_positions(emotion) ==
  IF emotion = "happy" THEN <<30, 60, 40, 70, 45>>
  ELSE IF emotion = "sad" THEN <<90, 75, 85, 70, 90>>
  ELSE IF emotion = "excited" THEN <<20, 80, 30, 90, 25, 85>>
  ELSE IF emotion = "sleepy" THEN <<85, 90, 88, 92, 90>>
  ELSE <<90, 60, 90>>

\* an animate_mouth that does not return to the closed position
AnimateMoves_open(phonemes) ==
  IF phonemes # <<>>
  THEN [i \in 1..Len(phonemes) |-> phoneme_to_position(phonemes[i])]
  ELSE <<45, 90, 60, 80, 50, 70, 90>>

\* animate_mouth, lines 59-75: the positions of the phonemes, or of the
\* default animation for None and for an empty list, then the closed position
AnimateMoves(phonemes) ==
  (IF phonemes # <<>>
   THEN [i \in 1..Len(phonemes) |-> phoneme_to_position(phonemes[i])]
   ELSE <<45, 90, 60, 80, 50, 70, 90>>) \o <<SERVO_CLOSED_POSITION>>

\* express_emotion, lines 99-106
EmotionMoves(emotion) == emotion_positions(emotion) \o <<SERVO_CLOSED_POSITION>>

\* move_to_position up to line 50: the position is clamped and, on a
\* connected servo, set_servo_pulsewidth sends it to the servo or raises, and
\* the exception ends the call of thread t; a mocked servo is sent nothing
MoveCommand(t) ==
  /\ moves[t] # <<>>
  /\ ~commanded[t]
  /\ \E moved \in (IF servo_active THEN BOOLEAN ELSE {TRUE}) :
       IF moved
       THEN /\ pulse' = IF servo_active THEN Clamp(Head(moves[t])) ELSE pulse
            /\ commanded' = [commanded EXCEPT ![t] = TRUE]
            /\ UNCHANGED <<moves, stack, rv>>
       ELSE /\ moves' = [moves EXCEPT ![t] = <<>>]
            /\ Return(t, "raise")
            /\ UNCHANGED <<pulse, commanded>>
  /\ UNCHANGED <<req, rec, servo_active, current_position>>
  /\ UNCHANGED nonServoVars

\* move_to_position, line 55: the clamped position is tracked; after the
\* last move of the call the call returns
MoveTrack(t) ==
  /\ moves[t] # <<>>
  /\ commanded[t]
  /\ current_position' = Clamp(Head(moves[t]))
  /\ moves' = [moves EXCEPT ![t] = Tail(@)]
  /\ commanded' = [commanded EXCEPT ![t] = FALSE]
  /\ IF Len(moves[t]) = 1 THEN Return(t, "None") ELSE UNCHANGED <<stack, rv>>
  /\ UNCHANGED <<req, rec, servo_active, pulse>>
  /\ UNCHANGED nonServoVars

\* one statement of the move_to_position thread t is in, lines 41-55
MoveStep(t) == MoveCommand(t) \/ MoveTrack(t)

\* ServoController.move_to_position called on its own
move_to_position(t) == At(t, "move_to_position") /\ MoveStep(t)

\* ServoController.animate_mouth
animate_mouth(t) == At(t, "animate_mouth") /\ MoveStep(t)

\* ServoController.express_emotion
express_emotion(t) == At(t, "express_emotion") /\ MoveStep(t)

(***************************************************************************)
(* The servo on its own (SpecServo): requests to the route /servo/<action> *)
(* on two request threads of the threaded web server, with a servo that    *)
(* is connected (pigpio may raise) or mocked.                              *)
(***************************************************************************)
\* the positions a request asks for: below, within and above the range
Positions == {-10, 45, 300}

\* the emotions a request asks for: the four known ones and an unknown one
Emotions == {"happy", "sad", "excited", "sleepy", "neutral"}

\* the threads that serve /servo requests
ServoCallers == {ApiThread, ApiThread + 1}

\* a servo call is in progress on thread t
InServoCall(t) ==
  \E l \in {"move_to_position", "animate_mouth", "express_emotion"} : At(t, l)

\* the route /servo/<action>, lines 168-186: the servo call is made; an
\* exception of the call is caught by the route (500)
servo_control(t) ==
  /\ stack[t] = <<>>
  /\ \/ \E position \in Positions :
          /\ moves' = [moves EXCEPT ![t] = <<position>>]
          /\ stack' = [stack EXCEPT ![t] = <<"move_to_position">>]
     \/ \E phonemes \in Timelines :
          /\ moves' = [moves EXCEPT ![t] = AnimateMoves(phonemes)]
          /\ stack' = [stack EXCEPT ![t] = <<"animate_mouth">>]
     \/ \E emotion \in Emotions :
          /\ moves' = [moves EXCEPT ![t] = EmotionMoves(emotion)]
          /\ stack' = [stack EXCEPT ![t] = <<"express_emotion">>]
  /\ UNCHANGED <<rv, req, rec, current_position, servo_active, commanded, pulse>>
  /\ UNCHANGED nonServoVars

ServoNext ==
  \/ \E t \in ServoCallers : servo_control(t)
  \/ \E t \in ServoCallers : move_to_position(t)
  \/ \E t \in ServoCallers : animate_mouth(t)
  \/ \E t \in ServoCallers : express_emotion(t)

\* ServoController.__init__, lines 21-39: the servo is at the closed
\* position, connected to pigpio or mocked
ServoInit ==
  /\ now = StartTime
  /\ WakeIdleAt
  /\ ResampleIdle
  /\ ThreadsIdle
  /\ AudioIdleEither
  /\ is_processing = FALSE
  /\ listen_thread = 0
  /\ join_start = NoTime
  /\ current_position = SERVO_CLOSED_POSITION
  /\ servo_active \in BOOLEAN
  /\ moves = [t \in Threads |-> <<>>]
  /\ commanded = [t \in Threads |-> FALSE]
  /\ pulse = NoPulse
  /\ BackendIdle
  /\ EnergyIdle
  /\ SharedIdle

SpecServo == ServoInit /\ [][ServoNext]_vars

\* thread t completes a move_to_position in this step
Moved(t) ==
  /\ moves[t] # <<>>
  /\ moves'[t] = Tail(moves[t])
  /\ ~(stack'[t] # stack[t] /\ rv'[t] = "raise")

\* C21: the tracked position is always clamped. A move_to_position(p) that
\* completes leaves current_position = 0 for p below 0, 180 for p above 180
\* and p otherwise, and current_position is within 0..180 whatever calls of
\* move_to_position, animate_mouth and express_emotion were made.
C21_PositionClamped ==
  /\ [][\A t \in Threads :
          Moved(t) =>
            LET p == Head(moves[t])
            IN current_position' = IF p < 0 THEN 0 ELSE IF p > 180 THEN 180 ELSE p]_vars
  /\ [](current_position \in 0..180)

\* move_to_position(300) has returned: the tracked position is 180
C21_ClampedHigh ==
  /\ current_position = 180
  /\ \A t \in Threads : ~InServoCall(t)

\* C22: when animate_mouth (no phonemes or any timeline) or express_emotion
\* (any emotion) returns while no other servo call is in progress, the
\* tracked position is the closed position. The closing move_to_position is
\* the last statement of both, so the call returns in the step of that move.
C22_EndsClosed ==
  [][\A t \in Threads :
       ( /\ Leaves(t, "animate_mouth") \/ Leaves(t, "express_emotion")
         /\ rv'[t] = "None"
         /\ \A u \in Threads \ {t} : ~InServoCall(u) )
       => current_position' = SERVO_CLOSED_POSITION]_vars

\* on a mocked servo every call has returned, the last one from an
\* animation or an emotion (no request asks for the closed position), and
\* the mouth is closed after it had been moved
C22_ClosedAfterCalls ==
  /\ ~servo_active
  /\ current_position = SERVO_CLOSED_POSITION
  /\ \A t \in Threads : ~InServoCall(t)
  /\ \A t \in ServoCallers : stack[t] = <<>> /\ rv[t] = "None"

(***************************************************************************)
(* One session in detail (SpecSession): what handle_wake_word does with    *)
(* the recording (transcription, backend call, response), the /respond     *)
(* route, and the two threads a response is played on.                     *)
(***************************************************************************)
\* AudioManager.play_audio, lines 155-157: a playback in progress is stopped
\* first (stop_playback, 254-261)
play_audio(w) ==
  /\ At(w, "play_audio")
  /\ IF am_is_playing
     THEN /\ am_is_playing' = FALSE
          /\ IF alsa["rec"].is_playing
             THEN /\ req' = [req EXCEPT ![w] = [m |-> "rec", dir |-> "playback", pcm |-> NoPcm]]
                  /\ Call(w, "close_lock", "play_exists")
             ELSE /\ Goto(w, "play_exists")
                  /\ UNCHANGED req
     ELSE /\ Goto(w, "play_exists")
          /\ UNCHANGED <<req, am_is_playing>>
  /\ UNCHANGED <<rv, rec, alsa, am_is_recording>>
  /\ UNCHANGED nonAudioVars

\* lines 159-170: the file is missing (return False), ALSA is not available
\* (aplay), or is_playing = True and play_wav_file is called
play_exists(w) ==
  /\ At(w, "play_exists")
  /\ \E exists \in BOOLEAN :
       IF ~exists
       THEN /\ Return(w, "False")
            /\ UNCHANGED am_is_playing
       ELSE IF ~alsa["rec"].is_available
       THEN /\ Goto(w, "play_aplay")
            /\ UNCHANGED <<rv, am_is_playing>>
       ELSE /\ am_is_playing' = TRUE
            /\ Goto(w, "play_wav_file")
            /\ UNCHANGED rv
  /\ UNCHANGED <<req, rec, alsa, am_is_recording>>
  /\ UNCHANGED nonAudioVars

\* the wave files played: mono 16 kHz and stereo 44.1 kHz
WavFiles == {[channels |-> 1, rate |-> 16000, period_size |-> 0],
             [channels |-> 2, rate |-> 44100, period_size |-> 0]}

\* AlsaAudioManager.play_wav_file, lines 201-214: the file is opened (or
\* wave.open raises) and create_playback_stream is called with its parameters
play_wav_file(w) ==
  /\ At(w, "play_wav_file")
  /\ \/ /\ rec' = [rec EXCEPT ![w].result = "False"]
        /\ Goto(w, "play_wav_finally")
        /\ UNCHANGED req
     \/ /\ \E pcm \in WavFiles :
             req' = [req EXCEPT ![w] = [m |-> "rec", dir |-> "playback", pcm |-> pcm]]
        /\ Call(w, "create_check", "play_created")
        /\ UNCHANGED rec
  /\ UNCHANGED <<rv, audioVars>>
  /\ UNCHANGED nonAudioVars

\* lines 212-234: no stream (False), or the frames are written (True)
play_created(w) ==
  /\ At(w, "play_created")
  /\ rec' = [rec EXCEPT ![w].result = rv[w]]
  /\ Goto(w, "play_wav_finally")
  /\ UNCHANGED <<rv, req, audioVars>>
  /\ UNCHANGED nonAudioVars

\* line 241: finally, close_playback_stream
play_wav_finally(w) ==
  /\ At(w, "play_wav_finally")
  /\ req' = [req EXCEPT ![w] = [m |-> "rec", dir |-> "playback", pcm |-> NoPcm]]
  /\ Call(w, "close_lock", "play_wav_done")
  /\ UNCHANGED <<rv, rec, audioVars>>
  /\ UNCHANGED nonAudioVars

\* play_audio, lines 172-187: success, or the fallback player; finally
\* is_playing = False
play_wav_done(w) ==
  /\ At(w, "play_wav_done")
  /\ \E played \in BOOLEAN :
       Return(w, IF rec[w].result = "True" \/ played THEN "True" ELSE "False")
  /\ rec' = [rec EXCEPT ![w] = RecIdle]
  /\ am_is_playing' = FALSE
  /\ UNCHANGED <<req, alsa, am_is_recording>>
  /\ UNCHANGED nonAudioVars

\* _fallback_play_audio (189-215) when ALSA is not available
play_aplay(w) ==
  /\ At(w, "play_aplay")
  /\ \E played \in BOOLEAN : Return(w, IF played THEN "True" ELSE "False")
  /\ UNCHANGED <<req, rec, audioVars>>
  /\ UNCHANGED nonAudioVars

PlayStep(w) ==
  \/ play_audio(w)
  \/ play_exists(w)
  \/ play_wav_file(w)
  \/ play_created(w)
  \/ play_wav_finally(w)
  \/ play_wav_done(w)
  \/ play_aplay(w)


\* audio_thread.start()
start_audio(t) ==
  /\ At(t, "start_audio")
  /\ ~is_alive(audio_thread(t))
  /\ stack' = [stack EXCEPT ![t] = <<"start_servo">> \o Tail(@),
                            ![audio_thread(t)] = <<"play_audio">>]
  /\ UNCHANGED <<rv, req, rec, audioVars>>
  /\ UNCHANGED nonAudioVars

\* servo_thread.start()
start_servo(t) ==
  /\ At(t, "start_servo")
  /\ ~is_alive(servo_thread(t))
  /\ stack' = [stack EXCEPT ![t] = <<"join_audio">> \o Tail(@),
                            ![servo_thread(t)] = <<"animate_mouth">>]
  /\ \E phonemes \in Timelines \ {<<>>} :
       moves' = [moves EXCEPT ![servo_thread(t)] = AnimateMoves(phonemes)]
  /\ UNCHANGED <<rv, req, rec, current_position, servo_active, commanded, pulse>>
  /\ UNCHANGED nonServoVars

\* audio_thread.join()
join_audio(t) ==
  /\ At(t, "join_audio")
  /\ ~is_alive(audio_thread(t))
  /\ Goto(t, "join_servo")
  /\ UNCHANGED <<rv, req, rec, audioVars>>
  /\ UNCHANGED nonAudioVars

\* a servo_thread.join() that does not wait
join_servo_nowait(t) ==
  /\ At(t, "join_servo")
  /\ Return(t, "None")
  /\ UNCHANGED <<req, rec, audioVars>>
  /\ UNCHANGED nonAudioVars

\* servo_thread.join(); the response has been played
join_servo(t) ==
  /\ At(t, "join_servo")
  /\ ~is_alive(servo_thread(t))
  /\ Return(t, "None")
  /\ UNCHANGED <<req, rec, audioVars>>
  /\ UNCHANGED nonAudioVars

ResponseStep(t) ==
  \/ start_audio(t)
  \/ start_servo(t)
  \/ join_audio(t)
  \/ join_servo(t)

\* a session that plays a sound while it transcribes
session_recorded_playing(t) ==
  /\ At(t, "handle_recorded")
  /\ IF rv[t] = "file"
     THEN stack' = [stack EXCEPT ![t] = <<"transcribe">> \o Tail(@),
                                 ![audio_thread(t)] = <<"play_audio">>]
     ELSE Goto(t, "handle_finally")
  /\ UNCHANGED <<rv, req, rec, audioVars>>
  /\ UNCHANGED nonAudioVars

\* handle_wake_word, lines 215-219: no file (return, through finally), or the
\* transcription is called
session_recorded(t) ==
  /\ At(t, "handle_recorded")
  /\ IF rv[t] = "file" THEN Goto(t, "transcribe") ELSE Goto(t, "handle_finally")
  /\ UNCHANGED <<rv, req, rec, audioVars>>
  /\ UNCHANGED nonAudioVars

\* what transcribe_audio_file returns: None, an empty string, blanks, a text
Transcriptions == {"None", "", "  ", "text"}

\* the characters of a transcription that is a string
Chars(transcription) ==
  CASE transcription = "" -> <<>>
    [] transcription = "  " -> <<" ", " ">>
    [] transcription = "text" -> <<"t", "e", "x", "t">>

\* a test of the transcription that does not strip it
NoSpeech_unstripped(transcription) ==
  transcription = "None" \/ Chars(transcription) = <<>>

\* line 224: `not transcription or not transcription.strip()`
NoSpeech(transcription) ==
  \/ transcription = "None"
  \/ Chars(transcription) = <<>>
  \/ strip(Chars(transcription)) = <<>>

\* lines 222-228: transcribe_audio_file returns (no speech: return, through
\* finally) or raises
transcribe(t) ==
  /\ At(t, "transcribe")
  /\ \E r \in Transcriptions \cup {"raise"} :
       /\ rv' = [rv EXCEPT ![t] = r]
       /\ Goto(t, IF r = "raise" THEN "handle_except"
                  ELSE IF NoSpeech(r) THEN "handle_finally" ELSE "send_text")
  /\ UNCHANGED <<req, rec, audioVars>>
  /\ UNCHANGED nonAudioVars

\* backend_client.py, lines 65-71: the canned response
FallbackResponse == [audio |-> "null", phonemes |-> <<>>, isFallback |-> TRUE]

\* what send_text_for_response returns: audio with phonemes, phonemes only
\* (the audio missing or empty), neither, the fallback of the client, and a
\* fallback that carries audio
Responses == {"audio", "phonemes", "no_audio", "empty", "fallback", "fallback_audio"}

\* the response dict of each
ResponseShape(r) ==
  CASE r = "audio" -> [audio |-> "audioBase64", phonemes |-> <<"zz", "iy">>, isFallback |-> FALSE]
    [] r = "phonemes" -> [audio |-> "null", phonemes |-> <<"zz", "iy">>, isFallback |-> FALSE]
    [] r = "no_audio" -> [audio |-> "", phonemes |-> <<"zz", "iy">>, isFallback |-> FALSE]
    [] r = "empty" -> [audio |-> "null", phonemes |-> <<>>, isFallback |-> FALSE]
    [] r = "fallback" -> FallbackResponse
    [] r = "fallback_audio" -> [audio |-> "audioBase64", phonemes |-> <<"zz", "iy">>, isFallback |-> TRUE]

\* a session that plays whatever audio the response carries
PlaysAudio_any(response) == response.audio \notin {"null", ""}

\* line 238: `if response.get('audio') and not response.get('isFallback')`
PlaysAudio(response) == response.audio \notin {"null", ""} /\ ~response.isFallback

\* lines 255-262: animate_mouth(response['phonemes']) for phonemes, else
\* animate_mouth()
MouthMoves(response) ==
  IF response.phonemes # <<>> THEN AnimateMoves(response.phonemes) ELSE AnimateMoves(<<>>)

\* lines 231-262: the backend call has returned; the audio is saved (or
\* save_base64_audio raises) and the two threads are created, or the mouth is
\* animated on this thread
send_text(t) ==
  /\ At(t, "send_text")
  /\ \E r \in Responses, saved \in BOOLEAN :
       /\ rv' = [rv EXCEPT ![t] = r]
       /\ IF PlaysAudio(ResponseShape(r))
          THEN /\ IF saved THEN Call(t, "start_audio", "handle_finally")
                  ELSE Goto(t, "handle_except")
               /\ UNCHANGED moves
          ELSE /\ Call(t, "animate_mouth", "handle_animated")
               /\ moves' = [moves EXCEPT ![t] = MouthMoves(ResponseShape(r))]
  /\ UNCHANGED <<req, rec, current_position, servo_active, commanded, pulse>>
  /\ UNCHANGED nonServoVars

\* lines 255-265: animate_mouth has returned, or its exception is caught
handle_animated(t) ==
  /\ At(t, "handle_animated")
  /\ Goto(t, IF rv[t] = "raise" THEN "handle_except" ELSE "handle_finally")
  /\ UNCHANGED <<rv, req, rec, audioVars>>
  /\ UNCHANGED nonAudioVars

\* a session that passes over an exception without the sad expression
handle_except_silent(t) ==
  /\ At(t, "handle_except")
  /\ Goto(t, "handle_finally")
  /\ UNCHANGED <<rv, req, rec, audioVars>>
  /\ UNCHANGED nonAudioVars

\* lines 266-273: except, express_emotion('sad')
handle_except(t) ==
  /\ At(t, "handle_except")
  /\ Call(t, "express_emotion", "handle_finally")
  /\ moves' = [moves EXCEPT ![t] = EmotionMoves("sad")]
  /\ UNCHANGED <<rv, req, rec, current_position, servo_active, commanded, pulse>>
  /\ UNCHANGED nonServoVars

\* the route /respond, lines 137-151: no audio (400), the audio cannot be
\* saved (500), or the two threads are created
respond(t) ==
  /\ stack[t] = <<>>
  /\ \E audio \in BOOLEAN, saved \in BOOLEAN :
       IF audio /\ saved
       THEN stack' = [stack EXCEPT ![t] = <<"start_audio", "respond_return">>]
       ELSE UNCHANGED stack
  /\ UNCHANGED <<rv, req, rec, audioVars>>
  /\ UNCHANGED nonAudioVars

\* line 162: /respond answers 'Response played successfully'
respond_return(t) ==
  /\ At(t, "respond_return")
  /\ stack' = [stack EXCEPT ![t] = <<>>]
  /\ UNCHANGED <<rv, req, rec, audioVars>>
  /\ UNCHANGED nonAudioVars

SessionNext ==
  \/ start_listening(ApiThread)
  \/ start_body(ApiThread)
  \/ respond(ApiThread)
  \/ respond_return(ApiThread)
  \/ \E t \in LoopThreads : listen_loop(t)
  \/ \E t \in LoopThreads : listen_created(t)
  \/ \E t \in LoopThreads : listen_while(t)
  \/ \E t \in LoopThreads : listen_recreate(t)
  \/ \E t \in LoopThreads : listen_paused(t)
  \/ \E t \in LoopThreads : listen_read(t)
  \/ \E t \in LoopThreads : listen_finally(t)
  \/ \E t \in LoopThreads : listen_exit(t)
  \/ \E t \in LoopThreads : handle_wake_word(t)
  \/ \E t \in LoopThreads : handle_set(t)
  \/ \E t \in LoopThreads : RecordStep(t)
  \/ \E t \in LoopThreads : session_recorded(t)
  \/ \E t \in LoopThreads : transcribe(t)
  \/ \E t \in LoopThreads : send_text(t)
  \/ \E t \in LoopThreads : handle_animated(t)
  \/ \E t \in LoopThreads : handle_except(t)
  \/ \E t \in LoopThreads : handle_finally(t)
  \/ \E t \in LoopThreads : handle_resume(t)
  \/ \E t \in LoopThreads \cup {ApiThread} : ResponseStep(t)
  \/ \E w \in ResponseThreads : PlayStep(w)
  \/ \E t \in Threads : animate_mouth(t)
  \/ \E t \in LoopThreads : express_emotion(t)
  \/ \E t \in Threads : AlsaStep(t)

\* the server as constructed, with or without alsaaudio. The clock does not
\* advance here: a recording ends by a read error, and the cooldown admits
\* one detection, so one session and any number of /respond requests run.
SessionInit ==
  /\ now = StartTime
  /\ WakeIdleAt
  /\ ResampleIdle
  /\ ThreadsIdle
  /\ AudioIdleEither
  /\ ServerIdle
  /\ SharedIdle

SpecSession == SessionInit /\ [][SessionNext]_vars

\* the steps of the session on thread t that are in progress
Recording(t) == InCall(t, "handle_recorded") /\ ~At(t, "handle_recorded")
Transcribing(t) == At(t, "transcribe")
Asking(t) == At(t, "send_text")
Playing(t) == is_alive(audio_thread(t))
Animating(t) == is_alive(servo_thread(t)) \/ At(t, "animate_mouth")
InProgress(t) ==
  {s \in {"record", "transcribe", "backend", "playback", "animation"} :
     \/ s = "record" /\ Recording(t)
     \/ s = "transcribe" /\ Transcribing(t)
     \/ s = "backend" /\ Asking(t)
     \/ s = "playback" /\ Playing(t)
     \/ s = "animation" /\ Animating(t)}

\* C19: within a session the steps are sequential. Transcription starts only
\* once record_with_vad has returned a file, the backend call starts only once
\* the transcription has returned a text, playback and animation start only
\* once the backend call has returned; at any time at most one step of the
\* session is in progress, except playback together with animation.
C19_SequentialSteps ==
  [][\A t \in LoopThreads :
       /\ Cardinality(InProgress(t)') <= 1 \/ InProgress(t)' = {"playback", "animation"}
       /\ (Transcribing(t)' /\ ~Transcribing(t)) => (At(t, "handle_recorded") /\ rv[t] = "file")
       /\ (Asking(t)' /\ ~Asking(t)) => (Transcribing(t) /\ rv'[t] = "text")
       /\ ((Playing(t)' /\ ~Playing(t)) \/ (Animating(t)' /\ ~Animating(t)))
            => (Asking(t) \/ At(t, "start_audio") \/ At(t, "start_servo"))
    ]_vars

\* playback and animation of a session run at the same time
C19_Witness ==
  \E t \in LoopThreads :
    /\ At(t, "join_audio")
    /\ InCall(audio_thread(t), "play_wav_done")
    /\ At(servo_thread(t), "animate_mouth")
    /\ is_processing

\* C20: a response with audio is played on two threads, both started before
\* either is joined, and the cycle is complete (is_processing = False, the
\* listener resumed, /respond answered) only when both threads have ended.
C20_JoinedBeforeComplete ==
  [][\A t \in LoopThreads \cup {ApiThread} :
       /\ Leaves(t, "start_audio") =>
            (stack'[audio_thread(t)] = <<"play_audio">> /\ At(t, "start_servo")')
       /\ Leaves(t, "start_servo") =>
            (stack'[servo_thread(t)] = <<"animate_mouth">> /\ At(t, "join_audio")')
       /\ Leaves(t, "join_audio") =>
            (~is_alive(audio_thread(t)) /\ At(t, "join_servo")')
       /\ Leaves(t, "join_servo") =>
            (~is_alive(audio_thread(t)) /\ ~is_alive(servo_thread(t)))
       /\ (Leaves(t, "handle_finally") \/ Leaves(t, "handle_resume") \/ Leaves(t, "respond_return"))
            => (~is_alive(audio_thread(t)) /\ ~is_alive(servo_thread(t)))
    ]_vars

\* both threads of a session's response have ended and the session is about
\* to leave its second join
C20_Witness ==
  \E t \in LoopThreads :
    /\ At(t, "join_servo")
    /\ rv[audio_thread(t)] \in {"True", "False"}
    /\ ~is_alive(audio_thread(t))
    /\ ~is_alive(servo_thread(t))
    /\ is_processing

(***************************************************************************)
(* The recorder between a session and a /record request (SpecRecord): the  *)
(* listener is started, a detection starts a session on the loop thread,   *)
(* and the request thread serves /record.  The clock does not advance.     *)
(***************************************************************************)
RecordNext ==
  \/ start_listening(ApiThread)
  \/ start_body(ApiThread)
  \/ api_record(ApiThread)
  \/ api_record_done(ApiThread)
  \/ \E t \in LoopThreads : listen_loop(t)
  \/ \E t \in LoopThreads : listen_created(t)
  \/ \E t \in LoopThreads : listen_while(t)
  \/ \E t \in LoopThreads : listen_recreate(t)
  \/ \E t \in LoopThreads : listen_paused(t)
  \/ \E t \in LoopThreads : listen_read(t)
  \/ \E t \in LoopThreads : listen_finally(t)
  \/ \E t \in LoopThreads : listen_exit(t)
  \/ \E t \in LoopThreads : SessionStep(t)
  \/ \E t \in Threads : RecordStep(t)
  \/ \E t \in Threads : AlsaStep(t)

SpecRecord == Init /\ [][RecordNext]_vars

\* t is in a record_with_vad call and past its is_recording guard (line 41)
PastRecordGuard(t) ==
  \E l \in {"rec_set", "rec_created", "rec_loop", "rec_close", "rec_save", "rec_finally"} :
    InCall(t, l)

\* C30: at most one record_with_vad call on the AudioManager is past the
\* is_recording guard at any time: of two concurrent calls one returns None at
\* the guard.
C30_OneRecorder ==
  Cardinality({t \in Threads : PastRecordGuard(t)}) <= 1

(***************************************************************************)
(* The matching on its own (SpecMatch): a detector configured with some    *)
(* list of wake words, not paused and outside the cooldown, is handed one  *)
(* decoded text.                                                           *)
(***************************************************************************)
W_furbys == W_furby \o <<"s">>
\* the words the recognizer may return
Vocabulary == {W_hey, W_furby, W_wake, W_up, W_furbys}
T_hey_furby_wake_up == join(<<W_hey, W_furby, W_wake, W_up>>)
\* decoded texts: up to MaxWords words, and the four-word text
MatchTexts == {join(ws) : ws \in BoundedSeq(Vocabulary, MaxWords)} \cup {T_hey_furby_wake_up}
\* values of self.wake_words: the default and other WAKE_WORDS settings
WakeWordConfigs ==
  { wake_words,
    << join(<<W_hey, W_furby>>) >>,
    << join(<<W_hey, W_furby>>), W_furby >>,
    << join(<<W_furby, W_wake, W_up>>), join(<<W_hey, W_furby>>) >> }

\* the for loop of _check_wake_word from index i on: the index at which it
\* calls the callback and breaks, 0 if it runs to the end
RECURSIVE check_loop(_, _, _)
check_loop(words, text, i) ==
  IF i > Len(words) THEN 0
  ELSE IF WakeWordMatches(text, words[i]) THEN i
  ELSE check_loop(words, text, i + 1)

MatchInit ==
  /\ now = StartTime
  /\ WakeIdleAt
  /\ raw_data = <<>>
  /\ vosk_out = <<>>
  /\ ppc = "ready"
  /\ ThreadsIdle
  /\ AudioIdle
  /\ ServerIdle
  /\ SharedIdle
  /\ m_words \in WakeWordConfigs
  /\ m_text \in MatchTexts
  /\ m_out = NoOut

\* _check_wake_word(m_text), with the confidence of every configured wake word
check_wake_word ==
  /\ ~m_out.done
  /\ LET text == strip(lower(m_text))
         rejected == m_text = <<>> \/ is_paused \/ CooldownActive(now, last_detection)
     IN m_out' = [accepted |-> IF rejected THEN 0 ELSE check_loop(m_words, text, 1),
                  conf |-> [i \in 1..Len(m_words) |-> calculate_confidence(text, m_words[i])],
                  done |-> TRUE]
  /\ UNCHANGED <<m_words, m_text, resampleVars, now, detVars, wakeLogVars, threadVars,
                 audioVars, srvVars, sharedVars, extVars>>

MatchNext == check_wake_word

SpecMatch == MatchInit /\ [][MatchNext]_vars

\* C11: outside the cooldown and while not paused, a decoded text is accepted
\* if and only if some configured phrase has confidence >= the threshold, and
\* the accepted phrase is the first such phrase in configured order, whatever
\* the order and adjacency of the words in the text.
C11_AcceptIffConfident ==
  m_out.done =>
    LET text == strip(lower(m_text))
        ok(i) == ConfidenceReached(calculate_confidence(text, m_words[i]))
    IN /\ (m_out.accepted # 0) <=> (\E i \in 1..Len(m_words) : ok(i))
       /\ m_out.accepted # 0 =>
            ok(m_out.accepted) /\ \A j \in 1..(m_out.accepted - 1) : ~ok(j)

\* C11, amended: a decoded text is accepted if and only if some configured
\* phrase occurs in the text as a substring and has confidence >= the
\* threshold, and the accepted phrase is the first such phrase.
C11_AcceptIffContainedAndConfident ==
  m_out.done =>
    LET text == strip(lower(m_text))
        occurs(i) == \E k \in 1..Len(text) :
                       /\ k + Len(m_words[i]) - 1 <= Len(text)
                       /\ \A n \in 1..Len(m_words[i]) : text[k + n - 1] = m_words[i][n]
        ok(i) == occurs(i) /\ ConfidenceReached(m_out.conf[i])
    IN /\ (m_out.accepted # 0) <=> (\E i \in 1..Len(m_words) : ok(i))
       /\ m_out.accepted # 0 =>
            ok(m_out.accepted) /\ \A j \in 1..(m_out.accepted - 1) : ~ok(j)

\* the first phrase has full confidence but does not occur in the text, and
\* the second phrase is the one accepted
C11_Witness ==
  /\ m_out.done
  /\ Len(m_words) = 2
  /\ m_out.accepted = 2
  /\ ConfidenceReached(m_out.conf[1])
  /\ ~StrIn(m_words[1], m_text)

\* C12: _calculate_confidence(text, phrase) is 1.0 when text equals phrase,
\* otherwise (number of the phrase's words that occur as whole words of the
\* text) / (number of words of the phrase); confidence("hey furby wake up",
\* "hey furby") = 1.0, confidence("furby", "hey furby") = 0.5, and the result
\* is within [0, 1].
C12_ConfidenceValue ==
  m_out.done =>
    \A i \in 1..Len(m_words) :
      LET text == strip(lower(m_text))
          phrase == m_words[i]
          c == m_out.conf[i]
          pw == split(phrase)
          whole(w) == Contains(<<SP>> \o w \o <<SP>>, <<SP>> \o text \o <<SP>>)
          present == Cardinality({k \in 1..Len(pw) : whole(pw[k])})
      IN /\ c.den > 0 /\ 0 <= c.num /\ c.num <= c.den
         /\ text = phrase => c.num = c.den
         /\ text # phrase => c.num * Len(pw) = present * c.den
         /\ (text = T_hey_furby_wake_up /\ phrase = T_hey_furby) => c.num = c.den
         /\ (text = T_furby /\ phrase = T_hey_furby) => 2 * c.num = c.den

\* confidence("furby", "hey furby") has been computed and is one half
C12_Witness ==
  /\ m_out.done
  /\ m_text = T_furby
  /\ \E i \in 1..Len(m_words) :
       m_words[i] = T_hey_furby /\ m_out.conf[i] = [num |-> 1, den |-> 2]

ResampleInit ==
  /\ WakeIdle
  /\ ThreadsIdle
  /\ AudioIdle
  /\ ServerIdle
  /\ SharedIdle
  /\ raw_data \in BoundedSeq(ByteVals, MaxRawBytes)
  /\ vosk_out = <<>>
  /\ ppc = "ready"
  /\ MatchIdle

ProcessFrame ==
  /\ ppc = "ready"
  /\ vosk_out' = process_audio_for_vosk(raw_data)
  /\ ppc' = "done"
  /\ UNCHANGED <<raw_data, now, detVars, wakeLogVars, sysVars>>

ResampleNext == ProcessFrame

SpecResample == ResampleInit /\ [][ResampleNext]_vars

\* number of 16-bit samples of a byte buffer
SampleCount(bytes) == Len(bytes) \div 2
\* mono length m of a raw stereo frame: sample count / 2
MonoLength(bytes) == SampleCount(bytes) \div 2
EvenSampleCount(bytes) == Len(bytes) % 4 = 0

\* C10 (as stated): for every raw frame with an even number of 16-bit samples
\* _process_audio_for_vosk returns exactly floor(m/3) mono samples, m the mono
\* length.
C10_FloorLength ==
  (ppc = "done" /\ EvenSampleCount(raw_data))
     => SampleCount(vosk_out) = MonoLength(raw_data) \div 3

\* C10 (amended): for every raw frame with an even number of 16-bit samples
\* _process_audio_for_vosk returns ceil(m/3) mono samples when m >= 3 and all
\* m samples (no decimation) when m < 3.
C10_CeilLength ==
  (ppc = "done" /\ EvenSampleCount(raw_data))
     => SampleCount(vosk_out) =
          (IF MonoLength(raw_data) >= 3
           THEN (MonoLength(raw_data) + 2) \div 3
           ELSE MonoLength(raw_data))

C10_Witness ==
  /\ ppc = "done"
  /\ EvenSampleCount(raw_data)
  /\ MonoLength(raw_data) = 4
  /\ SampleCount(vosk_out) = 2

(***************************************************************************)
(* BackendClient.send_text_for_response on its own (SpecBackend): one call *)
(* with max_retries attempts, each attempt with one of the outcomes of the *)
(* request.                                                                *)
(***************************************************************************)
\* the largest max_retries of a call; 3 is the default of the parameter
MaxRetries == 3

\* what an attempt can meet: status 200 with a JSON object as body, status
\* 200 with a body that json() or the use of the data raises on (not JSON,
\* not an object, phonemes null), another status, an exception of post()
\* (connection error, timeout)
Outcomes == {"ok200", "bad200", "non200", "transport"}

\* the attempt was answered with status 200
Http200(outcome) == outcome \in {"ok200", "bad200"}

\* a client that returns on every status 200, whatever the body
Returns_any200(outcome) == Http200(outcome)

\* lines 40-51: the attempt returns the response
Returns(outcome) == outcome = "ok200"

\* lines 59-62: the attempt ends in the except clause
Raises(outcome) == outcome \in {"bad200", "transport"}

\* lines 47-52: the dict made of the response of the backend
ResponseOf200 == [audio |-> "audioBase64", phonemes |-> <<"phonemes">>, isFallback |-> FALSE]

\* send_text_for_response(text, max_retries) is called
send_text_for_response ==
  /\ backend.pc = "idle"
  /\ \E n \in 0..MaxRetries :
       backend' = [NoBackendCall EXCEPT !.pc = "loop", !.max_retries = n]
  /\ UNCHANGED nonBackendVars

\* lines 29-62: one pass of `for attempt in range(max_retries)`: the request
\* is posted; status 200 with a usable body returns the response, another
\* status goes to the next attempt at once, an exception sleeps
\* 1 * (attempt + 1) seconds unless the attempt was the last
backend_attempt ==
  /\ backend.pc = "loop"
  /\ backend.attempt < backend.max_retries
  /\ \E outcome \in Outcomes :
       backend' =
         IF Returns(outcome)
         THEN [backend EXCEPT !.log = Append(@, outcome),
                              !.pc = "returned",
                              !.returned = backend.attempt + 1,
                              !.result = ResponseOf200]
         ELSE [backend EXCEPT !.log = Append(@, outcome),
                              !.attempt = @ + 1,
                              !.slept = IF Raises(outcome) /\ backend.attempt < backend.max_retries - 1
                                        THEN @ + 1 * (backend.attempt + 1) ELSE @]
  /\ UNCHANGED nonBackendVars

\* lines 64-71: the loop is exhausted, the canned response is returned
backend_fallback ==
  /\ backend.pc = "loop"
  /\ backend.attempt >= backend.max_retries
  /\ backend' = [backend EXCEPT !.pc = "returned", !.result = FallbackResponse]
  /\ UNCHANGED nonBackendVars

\* the caller has the response; the next call can be made
backend_done ==
  /\ backend.pc = "returned"
  /\ backend' = NoBackendCall
  /\ UNCHANGED nonBackendVars

BackendNext ==
  \/ send_text_for_response
  \/ backend_attempt
  \/ backend_fallback
  \/ backend_done

SpecBackend == SessionInit /\ [][BackendNext]_vars

\* the attempts of the call that were answered with status 200
Attempts200 == {i \in 1..Len(backend.log) : Http200(backend.log[i])}

\* the attempts of the call whose response the function could return
AttemptsUsable == {i \in 1..Len(backend.log) : backend.log[i] = "ok200"}

\* the least element of a non-empty set of attempts
First(S) == CHOOSE i \in S : \A j \in S : i <= j

\* C23 as stated: the call makes at most max_retries attempts and returns;
\* it returns the response of the first attempt answered with status 200,
\* with isFallback false, and the canned response when no attempt was
\* answered with status 200.
C23_FirstHttp200 ==
  /\ Len(backend.log) <= backend.max_retries
  /\ backend.pc = "returned" =>
       IF Attempts200 # {}
       THEN /\ backend.result.isFallback = FALSE
            /\ backend.returned = First(Attempts200)
       ELSE backend.result = FallbackResponse

\* C23: the call makes at most max_retries attempts and returns; it returns
\* the response of the first attempt answered with status 200 and a body
\* that json() and the reading of the data accept, with isFallback false, and
\* the canned response (audio null, no phonemes, isFallback true) when there
\* was no such attempt: every attempt met a transport error, another status
\* or a status 200 with an unusable body.
C23_FirstUsable200 ==
  /\ Len(backend.log) <= backend.max_retries
  /\ backend.attempt <= backend.max_retries
  /\ backend.pc = "returned" =>
       IF AttemptsUsable # {}
       THEN /\ backend.result = ResponseOf200
            /\ backend.returned = First(AttemptsUsable)
            /\ Len(backend.log) = backend.returned
       ELSE /\ backend.result = FallbackResponse
            /\ Len(backend.log) = backend.max_retries

\* a call has returned the response of its third attempt, after a transport
\* error and a status other than 200
C23_ThirdAttempt ==
  /\ backend.pc = "returned"
  /\ backend.log = <<"transport", "non200", "ok200">>
  /\ backend.result.isFallback = FALSE

(***************************************************************************)
(* Pausing from another thread (SpecPause): a detector with a callback     *)
(* that returns at once (test_alsa_audio.py), its loop thread statement by *)
(* statement from the read to the callback, and a second thread that       *)
(* calls pause_listening and resume_listening, stop_recording_stream and   *)
(* restart_recording_stream.                                               *)
(***************************************************************************)
\* the texts the recognizer returns: nothing, a wake word, another word
ResultTexts == {<<>>, T_furby, T_hello}

\* lines 171-181 and 184: read_audio() and _process_audio_for_vosk: no
\* data, or a frame that could not be converted (continue), or a frame for
\* the recognizer
loop_read(t) ==
  /\ At(t, "listen_read")
  /\ \E r \in ReadOutcomes("det"), processed \in BOOLEAN :
       IF r = "data" /\ processed THEN Goto(t, "loop_decode") ELSE Goto(t, "listen_while")
  /\ UNCHANGED <<rv, req, rec, audioVars>>
  /\ UNCHANGED nonAudioVars

\* lines 186-192: the frame is fed to the recognizer (AcceptWaveform), the
\* text of the result or of the partial result is passed to _check_wake_word
loop_decode(t) ==
  /\ At(t, "loop_decode")
  /\ \E text \in ResultTexts : m_text' = text
  /\ Goto(t, "loop_check")
  /\ UNCHANGED <<rv, req, rec, audioVars>>
  /\ UNCHANGED <<m_words, m_out, resampleVars, now, detVars, wakeLogVars, srvVars, sharedVars,
                 extVars>>

\* line 263: `if not text or self.is_paused: return`
loop_check(t) ==
  /\ At(t, "loop_check")
  /\ IF m_text = <<>> \/ is_paused THEN Goto(t, "listen_while") ELSE Goto(t, "loop_match")
  /\ UNCHANGED <<rv, req, rec, audioVars>>
  /\ UNCHANGED nonAudioVars

\* lines 266-284: the cooldown and the wake words; on a match
\* last_detection is set, pause_listening() is called and then the callback
loop_match(t) ==
  /\ At(t, "loop_match")
  /\ IF ~CooldownActive(now, last_detection) /\ MatchedWakeWord(strip(lower(m_text))) # 0
     THEN /\ last_detection' = now
          /\ is_paused' = PausedAfterPause
          /\ callback_times' = Append(callback_times, now)
     ELSE UNCHANGED <<last_detection, is_paused, callback_times>>
  /\ Goto(t, "listen_while")
  /\ UNCHANGED <<rv, req, rec, audioVars>>
  /\ UNCHANGED <<now, is_listening, feeds, resampleVars, matchVars, extVars, srvVars, sharedVars>>

\* pause_listening (lines 91-95) called while the detector listens: it has
\* returned, and the caller has yet to call resume_listening
pause_listening(t) ==
  /\ stack[t] = <<>>
  /\ is_listening
  /\ is_paused' = PausedAfterPause
  /\ stack' = [stack EXCEPT ![t] = <<"pause_hold">>]
  /\ UNCHANGED <<rv, req, rec, audioVars>>
  /\ UNCHANGED <<now, is_listening, last_detection, wakeLogVars, resampleVars, matchVars, extVars,
                 srvVars, sharedVars>>

\* resume_listening (lines 97-101) called by the thread that paused
resume_listening(t) ==
  /\ At(t, "pause_hold")
  /\ is_paused' = PausedAfterResume
  /\ stack' = [stack EXCEPT ![t] = <<>>]
  /\ UNCHANGED <<rv, req, rec, audioVars>>
  /\ UNCHANGED <<now, is_listening, last_detection, wakeLogVars, resampleVars, matchVars, extVars,
                 srvVars, sharedVars>>

\* stop_recording_stream (lines 103-110): False if not listening or paused;
\* otherwise is_paused = True and close_recording_stream() is called
stop_recording_stream(t) ==
  /\ stack[t] = <<>>
  /\ IF is_listening /\ ~is_paused
     THEN /\ is_paused' = TRUE
          /\ req' = [req EXCEPT ![t] = [m |-> "det", dir |-> "capture", pcm |-> NoPcm]]
          /\ stack' = [stack EXCEPT ![t] = <<"close_lock", "stop_stream_closed">>]
          /\ UNCHANGED rv
     ELSE /\ rv' = [rv EXCEPT ![t] = "False"]
          /\ UNCHANGED <<is_paused, req, stack>>
  /\ UNCHANGED <<rec, audioVars>>
  /\ UNCHANGED <<now, is_listening, last_detection, wakeLogVars, resampleVars, matchVars, extVars,
                 srvVars, sharedVars>>

\* line 109: stop_recording_stream returns True, and the caller has yet to
\* call restart_recording_stream
stop_stream_closed(t) ==
  /\ At(t, "stop_stream_closed")
  /\ rv' = [rv EXCEPT ![t] = "True"]
  /\ Goto(t, "stop_hold")
  /\ UNCHANGED <<req, rec, audioVars>>
  /\ UNCHANGED nonAudioVars

\* restart_recording_stream (lines 112-119) called by the thread that stopped
\* the stream
restart_recording_stream(t) ==
  /\ At(t, "stop_hold")
  /\ is_paused' = (IF is_listening /\ is_paused THEN FALSE ELSE is_paused)
  /\ rv' = [rv EXCEPT ![t] = IF is_listening /\ is_paused THEN "True" ELSE "False"]
  /\ stack' = [stack EXCEPT ![t] = <<>>]
  /\ UNCHANGED <<req, rec, audioVars>>
  /\ UNCHANGED <<now, is_listening, last_detection, wakeLogVars, resampleVars, matchVars, extVars,
                 srvVars, sharedVars>>

PauseNext ==
  \/ start_listening(ApiThread)
  \/ start_body(ApiThread)
  \/ pause_listening(ApiThread)
  \/ resume_listening(ApiThread)
  \/ stop_recording_stream(ApiThread)
  \/ stop_stream_closed(ApiThread)
  \/ restart_recording_stream(ApiThread)
  \/ \E t \in LoopThreads : listen_loop(t)
  \/ \E t \in LoopThreads : listen_created(t)
  \/ \E t \in LoopThreads : listen_while(t)
  \/ \E t \in LoopThreads : listen_recreate(t)
  \/ \E t \in LoopThreads : listen_recreated(t)
  \/ \E t \in LoopThreads : listen_paused(t)
  \/ \E t \in LoopThreads : listen_finally(t)
  \/ \E t \in LoopThreads : listen_exit(t)
  \/ \E t \in LoopThreads : loop_read(t)
  \/ \E t \in LoopThreads : loop_decode(t)
  \/ \E t \in LoopThreads : loop_check(t)
  \/ \E t \in LoopThreads : loop_match(t)
  \/ \E t \in Threads : AlsaStep(t)

SpecPause == SessionInit /\ [][PauseNext]_vars

\* pause_listening or stop_recording_stream has returned to the pausing
\* thread, which has not yet called resume_listening or
\* restart_recording_stream
HeldPaused == At(ApiThread, "pause_hold") \/ At(ApiThread, "stop_hold")

\* C25: after pause_listening or stop_recording_stream has returned and
\* until resume_listening or restart_recording_stream is called, the loop
\* thread feeds no frame to the recognizer and does not invoke the callback.
C25_PausedNoDecodeNoCallback ==
  [][HeldPaused =>
       \A t \in LoopThreads :
         /\ ~Leaves(t, "loop_decode")
         /\ ~(At(t, "loop_match") /\ callback_times' # callback_times)]_vars

\* C27: after stop_recording_stream has returned True and until
\* restart_recording_stream is called, the listener's manager holds no open
\* capture stream.
C27_StoppedStreamStaysClosed ==
  At(ApiThread, "stop_hold") => ~CaptureOpen("det")

\* thread t is inside the callback, FurbyServer.handle_wake_word, which
\* _check_wake_word calls on the loop thread (line 283)
InCallback(t) ==
  \E l \in {"handle_wake_word", "handle_set", "handle_recorded", "handle_finally",
            "handle_resume"} : InCall(t, l)

\* C26: while the listener is paused with its capture stream open, the loop
\* keeps pulling frames, also during the pause it imposes on itself for the
\* session a detection starts: some loop thread is then running the loop,
\* not held inside the callback.
C26_PausedLoopStillReads ==
  (is_listening /\ is_paused /\ CaptureOpen("det"))
    => \E t \in LoopThreads : is_alive(t) /\ ~InCallback(t)

(***************************************************************************)
(* Two threads on the ALSA managers (SpecCreate): each creates and closes  *)
(* streams, so that two create_recording_stream calls can overlap.         *)
(***************************************************************************)
\* the two callers: a request thread and a loop thread
Creators == {ApiThread, Closer}

CreateNext ==
  \/ \E t \in Creators : test_create(t)
  \/ \E t \in Creators : test_close(t)
  \/ \E t \in Creators : test_return(t)
  \/ \E t \in Creators : AlsaStep(t)

SpecCreate == SessionInit /\ [][CreateNext]_vars

\* thread t, under the lock, stores a newly opened capture handle in
\* recording_pcm in this step
StoresCapture(t) ==
  /\ Leaves(t, "create_open")
  /\ req[t].dir = "capture"
  /\ rv'[t] = "True"

\* C31: for any interleaving of create_recording_stream and
\* close_recording_stream calls on one manager the bookkeeping matches the
\* device: whenever the lock is free is_recording is true exactly when
\* recording_pcm is set, and no handle held in recording_pcm is overwritten
\* by a newly opened one without having been closed.
C31_BookkeepingMatchesDevice ==
  /\ [](\A m \in Managers :
          alsa[m].lock = 0 => (alsa[m].is_recording <=> CaptureOpen(m)))
  /\ [][\A t \in Threads : StoresCapture(t) => ~CaptureOpen(req[t].m)]_vars

(***************************************************************************)
(* The energy of one frame (SpecEnergy): lines 92-96 of record_with_vad    *)
(* applied to frames of int16 samples from the whole range.                *)
(***************************************************************************)
\* the longest frame examined
MaxFrameLen == 2

\* samples at the ends of the int16 range, around the threshold
\* (0.01 * 32768 = 327.68) and around the largest square that fits int16
Samples == {-32768, -400, 0, 181, 327, 328, 32767}

Frames == UNION {[1..k -> Samples] : k \in 1..MaxFrameLen}

\* lines 92-96: np.frombuffer(chunk, dtype=np.int16), the energy and the
\* comparison with VAD_ENERGY_THRESHOLD
classify_frame ==
  /\ voice = "-"
  /\ voice' = IF EnergyAboveThreshold(audio_np) THEN "speech" ELSE "silence"
  /\ UNCHANGED <<audio_np, servoVars, backendVars, singletonVars>>
  /\ UNCHANGED <<resampleVars, now, detVars, wakeLogVars, threadVars, audioVars, srvVars,
                 sharedVars, matchVars>>

EnergyNext == classify_frame

\* a chunk has been read from the stream
EnergyInit ==
  /\ now = StartTime
  /\ WakeIdleAt
  /\ ResampleIdle
  /\ ThreadsIdle
  /\ AudioIdle
  /\ is_processing = FALSE
  /\ listen_thread = 0
  /\ join_start = NoTime
  /\ ServoIdle
  /\ BackendIdle
  /\ audio_np \in Frames
  /\ voice = "-"
  /\ SharedIdle

SpecEnergy == EnergyInit /\ [][EnergyNext]_vars

\* C32: for every frame of int16 samples from the whole range the recorder
\* takes the frame for speech exactly when the root-mean-square of the
\* samples over 32768, with the exact squares, exceeds VAD_ENERGY_THRESHOLD.
C32_SpeechIffExactRms ==
  voice # "-" => ((voice = "speech") <=> IsSpeechFrame(audio_np))

\* C33: record_with_vad end-points only on an uninterrupted run of silence.
\* Here for the first speech frame of a recording (root-mean-square over
\* 32768 above the threshold): the step that reads it clears the silence
\* timer and does not end the recording on silence, so silence before it
\* does not count toward the run after it.
C33_SpeechClearsTimer ==
  [][\A t \in Threads :
       (~rec[t].loud /\ rec'[t].loud)
         => /\ rec'[t].silence_start = NoTime
            /\ rec'[t].exit # "silence"]_vars

\* the step enters the callback on loop thread t: self.callback() at line 283
EntersCallback(t) ==
  /\ At(t, "listen_read")
  /\ stack'[t] # <<>>
  /\ Head(stack'[t]) = "handle_wake_word"

\* C34: on an accepted detection the detection time is recorded and the
\* listener is paused before the callback is invoked: the callback is
\* entered with last_detection at the time of the detection and, on a
\* listening detector, with the listener Paused; and the thread that runs
\* the callback reads no frame until the callback has returned.
C34_PausedAtCallbackEntry ==
  /\ [][\A t \in LoopThreads :
          EntersCallback(t)
            => /\ last_detection' = now
               /\ is_listening' => is_paused']_vars
  /\ [](\A t \in LoopThreads :
          InCallback(t) => ~At(t, "listen_read") /\ ~At(t, "listen_paused"))

\* an accepted detection has entered the callback on a listening detector
C34_AtCallbackEntry ==
  \E t \in LoopThreads :
    /\ At(t, "handle_wake_word")
    /\ is_listening
    /\ is_paused
    /\ last_detection = now

\* C35: whenever no move_to_position call is between its command to the
\* servo and its return, the tracked position is the position of the last
\* command sent to the servo, for any interleaving of the servo callers.
C35_TrackedIsLastCommand ==
  ((\A t \in Threads : ~commanded[t]) /\ pulse # NoPulse) => current_position = pulse

(***************************************************************************)
(* SharedAudioManager.cleanup and force_reset.  Both walk the registered   *)
(* streams with stream_lock held; stop_stream() and close() are calls into *)
(* PyAudio that may raise.                                                 *)
(***************************************************************************)
nonSharedVars == <<now, detVars, wakeLogVars, resampleVars, matchVars, extVars, srvVars, audioVars>>

\* the ids registered in active_streams
RegisteredIds == {id \in StreamIds : Registered(id)}

\* cleanup, line 142, and force_reset, line 178: `with self.stream_lock:` entered
reset_lock(t) ==
  /\ At(t, "cleanup_lock") \/ At(t, "force_reset_lock")
  /\ stream_lock = 0
  /\ stream_lock' = t
  /\ Goto(t, IF At(t, "cleanup_lock") THEN "cleanup_streams" ELSE "force_reset_streams")
  /\ UNCHANGED <<rv, req, rec, pyaudio_instance, active_streams>>
  /\ UNCHANGED nonSharedVars

\* cleanup, lines 143-152: every stream is stopped and closed (an exception is
\* printed), then active_streams.clear()
cleanup_streams(t) ==
  /\ At(t, "cleanup_streams")
  /\ active_streams' = [id \in StreamIds |-> NoPcm]
  /\ stream_lock' = 0
  /\ Goto(t, "cleanup_pyaudio")
  /\ UNCHANGED <<rv, req, rec, pyaudio_instance>>
  /\ UNCHANGED nonSharedVars

\* cleanup, lines 155-161: terminate(); pyaudio_instance is dropped unless
\* terminate raises
cleanup_pyaudio(t) ==
  /\ At(t, "cleanup_pyaudio")
  /\ \E raised \in (IF pyaudio_instance THEN BOOLEAN ELSE {FALSE}) :
       pyaudio_instance' = (pyaudio_instance /\ raised)
  /\ Return(t, "None")
  /\ UNCHANGED <<req, rec, active_streams, stream_lock>>
  /\ UNCHANGED nonSharedVars

\* force_reset, lines 180-187: the streams left registered by the loop, raised
\* being the ids whose stop_stream() or close() raises: `del` comes after them
\* in the try block
ForceResetKeeps(raised) == raised

\* force_reset, lines 178-187
force_reset_streams(t) ==
  /\ At(t, "force_reset_streams")
  /\ \E raised \in SUBSET RegisteredIds :
       active_streams' = [id \in StreamIds |->
                            IF id \in ForceResetKeeps(raised) THEN active_streams[id] ELSE NoPcm]
  /\ stream_lock' = 0
  /\ Goto(t, "force_reset_pyaudio")
  /\ UNCHANGED <<rv, req, rec, pyaudio_instance>>
  /\ UNCHANGED nonSharedVars

\* force_reset, lines 190-199: terminate (an exception is passed over),
\* pyaudio_instance = None, then _init_pyaudio(), which may fail
force_reset_pyaudio(t) ==
  /\ At(t, "force_reset_pyaudio")
  /\ pyaudio_instance' \in BOOLEAN
  /\ Return(t, "None")
  /\ UNCHANGED <<req, rec, active_streams, stream_lock>>
  /\ UNCHANGED nonSharedVars

\* shared_audio.cleanup()
test_cleanup(t) ==
  /\ stack[t] = <<>>
  /\ stack' = [stack EXCEPT ![t] = <<"cleanup_lock", "test_done">>]
  /\ UNCHANGED <<rv, req, rec, audioVars>>
  /\ UNCHANGED nonAudioVars

\* shared_audio.force_reset()
test_force_reset(t) ==
  /\ stack[t] = <<>>
  /\ stack' = [stack EXCEPT ![t] = <<"force_reset_lock", "test_done">>]
  /\ UNCHANGED <<rv, req, rec, audioVars>>
  /\ UNCHANGED nonAudioVars

ResetNext ==
  \/ \E t \in Creators : test_create_stream(t)
  \/ \E t \in Creators : test_close_stream(t)
  \/ \E t \in Creators : test_cleanup(t)
  \/ \E t \in Creators : test_force_reset(t)
  \/ \E t \in Creators : test_return(t)
  \/ \E t \in Creators : SharedStep(t)
  \/ \E t \in Creators : reset_lock(t)
  \/ \E t \in Creators : cleanup_streams(t)
  \/ \E t \in Creators : cleanup_pyaudio(t)
  \/ \E t \in Creators : force_reset_streams(t)
  \/ \E t \in Creators : force_reset_pyaudio(t)

SpecReset == ArbInit /\ [][ResetNext]_vars

\* C36: stream handles are destroyed on close and on forced reset, also when
\* the underlying stop or close raises: the step of close_stream(id) that
\* leaves its `with` block leaves id unregistered, and the step of cleanup or
\* of force_reset that leaves the `with` block leaves active_streams empty.
C36_HandlesDestroyed ==
  [][\A t \in Threads :
       /\ Leaves(t, "close_stream_body") => ~Registered(req[t].m)'
       /\ Leaves(t, "cleanup_streams") => RegisteredIds' = {}
       /\ Leaves(t, "force_reset_streams") => RegisteredIds' = {}]_vars

(***************************************************************************)
(* SharedAudioManager.__new__ and __init__: the construction of the        *)
(* singleton by threads that run concurrently.  singleton.created counts   *)
(* the objects made by super().__new__ and singleton.inits the executions  *)
(* of the body of __init__.                                                *)
(***************************************************************************)
\* what the construction of the SharedAudioManager leaves alone
nonSingletonVars == <<now, detVars, wakeLogVars, resampleVars, matchVars, srvVars, audioVars,
                      servoVars, backendVars, energyVars>>

\* the class as loaded: _instance = None, _lock free
SingletonUnbuilt ==
  singleton = [instance |-> FALSE, initialized |-> "unset", lock |-> 0, created |-> 0, inits |-> 0]

\* SharedAudioManager(config)
construct(t) ==
  /\ stack[t] = <<>>
  /\ stack' = [stack EXCEPT ![t] = <<"new_check", "test_done">>]
  /\ UNCHANGED <<rv, req, rec, sharedVars, singletonVars>>
  /\ UNCHANGED nonSingletonVars

\* __new__, line 23: `if cls._instance is None:`; line 28 returns the
\* instance and type.__call__ goes on with __init__
new_check(t) ==
  /\ At(t, "new_check")
  /\ Goto(t, IF singleton.instance THEN "init_check" ELSE "new_lock")
  /\ UNCHANGED <<rv, req, rec, sharedVars, singletonVars>>
  /\ UNCHANGED nonSingletonVars

\* __new__, line 24: `with cls._lock:` entered
new_lock(t) ==
  /\ At(t, "new_lock")
  /\ singleton.lock = 0
  /\ singleton' = [singleton EXCEPT !.lock = t]
  /\ Goto(t, "new_create")
  /\ UNCHANGED <<rv, req, rec, sharedVars>>
  /\ UNCHANGED nonSingletonVars

\* __new__, lines 25-26: the test repeated under the lock, and
\* cls._instance = super().__new__(cls)
new_create(t) ==
  /\ At(t, "new_create")
  /\ IF singleton.instance
     THEN /\ singleton' = [singleton EXCEPT !.lock = 0]
          /\ Goto(t, "init_check")
     ELSE /\ singleton' = [singleton EXCEPT !.instance = TRUE, !.created = @ + 1]
          /\ Goto(t, "new_mark")
  /\ UNCHANGED <<rv, req, rec, sharedVars>>
  /\ UNCHANGED nonSingletonVars

\* __new__, line 27: cls._instance._initialized = False, and the lock is left
new_mark(t) ==
  /\ At(t, "new_mark")
  /\ singleton' = [singleton EXCEPT !.initialized = "False", !.lock = 0]
  /\ Goto(t, "init_check")
  /\ UNCHANGED <<rv, req, rec, sharedVars>>
  /\ UNCHANGED nonSingletonVars

\* __init__, lines 31-32: `if self._initialized: return`; the attribute does
\* not exist before line 27 has run
init_check(t) ==
  /\ At(t, "init_check")
  /\ CASE singleton.initialized = "unset" -> Return(t, "AttributeError")
       [] singleton.initialized = "True" -> Return(t, "instance")
       [] OTHER -> Goto(t, "init_body") /\ UNCHANGED rv
  /\ UNCHANGED <<req, rec, sharedVars, singletonVars>>
  /\ UNCHANGED nonSingletonVars

\* __init__, lines 34-38: the state of the instance is set up and
\* _initialized becomes True
init_body(t) ==
  /\ At(t, "init_body")
  /\ pyaudio_instance' = FALSE
  /\ active_streams' = [id \in StreamIds |-> NoPcm]
  /\ stream_lock' = 0
  /\ singleton' = [singleton EXCEPT !.initialized = "True", !.inits = @ + 1]
  /\ Goto(t, "init_pyaudio")
  /\ UNCHANGED <<rv, req, rec>>
  /\ UNCHANGED nonSingletonVars

\* __init__, line 41: _init_pyaudio(), which may fail
init_pyaudio(t) ==
  /\ At(t, "init_pyaudio")
  /\ pyaudio_instance' \in BOOLEAN
  /\ Return(t, "instance")
  /\ UNCHANGED <<req, rec, active_streams, stream_lock, singletonVars>>
  /\ UNCHANGED nonSingletonVars

\* the streams are created and closed on the instance by threads that hold it
SingletonNext ==
  \/ \E t \in Creators : construct(t)
  \/ \E t \in Creators : new_check(t)
  \/ \E t \in Creators : new_lock(t)
  \/ \E t \in Creators : new_create(t)
  \/ \E t \in Creators : new_mark(t)
  \/ \E t \in Creators : init_check(t)
  \/ \E t \in Creators : init_body(t)
  \/ \E t \in Creators : init_pyaudio(t)
  \/ \E t \in Creators : singleton.initialized = "True" /\ test_create_stream(t)
  \/ \E t \in Creators : test_return(t)
  \/ \E t \in Creators : SharedStep(t)

SingletonInit ==
  /\ now = StartTime
  /\ WakeIdleAt
  /\ ResampleIdle
  /\ ThreadsIdle
  /\ AudioIdleEither
  /\ ServerIdle
  /\ SingletonUnbuilt
  /\ pyaudio_instance = FALSE
  /\ active_streams = [id \in StreamIds |-> NoPcm]
  /\ stream_lock = 0

SpecSingleton == SingletonInit /\ [][SingletonNext]_vars

\* C40: SharedAudioManager is a process-wide singleton under concurrency:
\* one object is ever made, no construction fails, the body of __init__ runs
\* at most once, and no execution of it finds a registered stream to drop.
C40_SingletonInitialisedOnce ==
  /\ [](/\ singleton.created <= 1
        /\ singleton.inits <= 1
        /\ \A t \in Threads : rv[t] # "AttributeError")
  /\ [][\A t \in Threads : Leaves(t, "init_body") => RegisteredIds = {}]_vars

(***************************************************************************)
(* One session on its own (SpecHandle): the listener is started, a         *)
(* detection calls handle_wake_word on the loop thread, and the servo is   *)
(* connected (pigpio may raise) or mocked.  No request is served.  A        *)
(* session has a response to play only after a recording through ALSA, so  *)
(* its playback never takes the aplay path.                                *)
(***************************************************************************)
HandleNext ==
  \/ start_listening(ApiThread)
  \/ start_body(ApiThread)
  \/ \E t \in LoopThreads : listen_loop(t)
  \/ \E t \in LoopThreads : listen_created(t)
  \/ \E t \in LoopThreads : listen_while(t)
  \/ \E t \in LoopThreads : listen_recreate(t)
  \/ \E t \in LoopThreads : listen_paused(t)
  \/ \E t \in LoopThreads : listen_read(t)
  \/ \E t \in LoopThreads : listen_finally(t)
  \/ \E t \in LoopThreads : listen_exit(t)
  \/ \E t \in LoopThreads : handle_wake_word(t)
  \/ \E t \in LoopThreads : handle_set(t)
  \/ \E t \in LoopThreads : RecordStep(t)
  \/ \E t \in LoopThreads : session_recorded(t)
  \/ \E t \in LoopThreads : transcribe(t)
  \/ \E t \in LoopThreads : send_text(t)
  \/ \E t \in LoopThreads : handle_animated(t)
  \/ \E t \in LoopThreads : handle_except(t)
  \/ \E t \in LoopThreads : handle_finally(t)
  \/ \E t \in LoopThreads : handle_resume(t)
  \/ \E t \in LoopThreads : ResponseStep(t)
  \/ \E w \in ResponseThreads : play_audio(w)
  \/ \E w \in ResponseThreads : play_exists(w)
  \/ \E w \in ResponseThreads : play_wav_file(w)
  \/ \E w \in ResponseThreads : play_created(w)
  \/ \E w \in ResponseThreads : play_wav_finally(w)
  \/ \E w \in ResponseThreads : play_wav_done(w)
  \/ \E t \in Threads : animate_mouth(t)
  \/ \E t \in LoopThreads : express_emotion(t)
  \/ \E t \in Threads : AlsaStep(t)

SpecHandle == ServoInit /\ [][HandleNext]_vars

\* the session on thread t is in its finally clause
Finishing(t) == At(t, "handle_finally") \/ At(t, "handle_resume")

\* C37: a session aborts early without side effects on collaborators: when
\* the recorder returns no utterance, and when the transcription is missing,
\* empty or whitespace only, the session goes to its finally clause with no
\* transcription, backend call, playback or animation started, and none
\* starts before the session has returned.
C37_EarlyReturnNoSideEffects ==
  /\ [][\A t \in LoopThreads :
          /\ (Leaves(t, "handle_recorded") /\ rv[t] # "file")
               => (At(t, "handle_finally")' /\ InProgress(t)' = {} /\ moves' = moves)
          /\ (Leaves(t, "transcribe") /\ rv'[t] \in {"None", "", "  "})
               => (At(t, "handle_finally")' /\ InProgress(t)' = {} /\ moves' = moves)]_vars
  /\ [](\A t \in LoopThreads : Finishing(t) => InProgress(t) = {})

\* a session is in its finally clause after a transcription of blanks
C37_AbortedOnBlanks ==
  \E t \in LoopThreads : At(t, "handle_finally") /\ rv[t] = "  " /\ is_processing

\* C38: the response branch is decided by the response shape alone.  Audio
\* present and not fallback: the audio is persisted (or the exception of
\* save_base64_audio is caught) and the playback thread is started, then the
\* servo thread with animate_mouth(phonemes).  Otherwise no playback is
\* started and the mouth is animated on the session's thread: with the
\* phonemes if there are any, else with the canned motion.  Playback runs only
\* for a response with audio that is not a fallback, and the fallback of the
\* backend client takes the canned motion.
C38_BranchByShape ==
  /\ [][\A t \in LoopThreads :
          Leaves(t, "send_text") =>
            LET response == ResponseShape(rv'[t])
                canned == <<45, 90, 60, 80, 50, 70, 90, SERVO_CLOSED_POSITION>>
            IN IF response.audio = "audioBase64" /\ ~response.isFallback
               THEN At(t, "start_audio")' \/ At(t, "handle_except")'
               ELSE /\ At(t, "animate_mouth")'
                    /\ ~Playing(t)'
                    /\ moves'[t] = IF response.phonemes # <<>>
                                   THEN AnimateMoves(response.phonemes) ELSE canned
                    /\ response = FallbackResponse => moves'[t] = canned]_vars
  /\ [][\A t \in LoopThreads :
          Leaves(t, "start_servo")
            => moves'[servo_thread(t)] = AnimateMoves(ResponseShape(rv[t]).phonemes)]_vars
  /\ [](\A t \in LoopThreads :
          Playing(t) => (rv[t] \in Responses /\ ResponseShape(rv[t]).audio = "audioBase64"
                                            /\ ~ResponseShape(rv[t]).isFallback))

\* a fallback response that carries audio and phonemes is animated on the
\* session's thread, with no playback
C38_FallbackAnimated ==
  \E t \in LoopThreads :
    /\ At(t, "animate_mouth")
    /\ rv[t] = "fallback_audio"
    /\ moves[t] = AnimateMoves(<<"zz", "iy">>)
    /\ ~Playing(t)

====
